---- MODULE Spec2Model ----
(***************************************************************************)
(* Model of mysql2-db (src/db.js): stages of SQL operations, their         *)
(* finalization over a pooled connection, and the pool registry.           *)
(*                                                                         *)
(* JavaScript values are tagged records, so that values of different       *)
(* JavaScript types can be compared:                                       *)
(*   [k |-> "undef"]  [k |-> "null"]  [k |-> "num", n |-> 3]               *)
(*   [k |-> "str", s |-> "x"]  [k |-> "arr", a |-> <<...>>]                *)
(*   [k |-> "obj", o |-> [name |-> value]]                                 *)
(*   [k |-> "ok", affectedRows |-> n]   the driver's result header         *)
(*   [k |-> "row", cols |-> <<[name, val], ...>>]   one row of a row set   *)
(***************************************************************************)
EXTENDS Integers, Sequences, FiniteSets, TLC

\* ------------------------------------------------------------------ bounds

\* most operations one stage is given
MaxOps == 2
\* parameter rows of the multi-row operations of the catalog
MaxRows == 2
\* most calls of finale on one stage
MaxFinaleCalls == 2
\* most calls of curtains
MaxCurtains == 1
\* most calls of finale on one stage where two stages run side by side
ShutdownFinaleCalls == 1
\* calls of execute, and of finale, on the stage given the statements and
\* containers of ConstructCatalog
ConstructAppends == 1
ConstructFinaleCalls == 1
\* the most actions an array given to act or transact holds, and the calls
\* of act or transact made with one configuration
MaxActions == 2
ActCalls == 1
\* calls of curtains where curtains is called again
RepeatCurtains == 2

\* ------------------------------------------------------------------ values

Undef == [k |-> "undef"]
Null == [k |-> "null"]
Num(n) == [k |-> "num", n |-> n]
Str(s) == [k |-> "str", s |-> s]
Arr(a) == [k |-> "arr", a |-> a]
Obj(o) == [k |-> "obj", o |-> o]
OkPacket(n) == [k |-> "ok", affectedRows |-> n]
Row(cols) == [k |-> "row", cols |-> cols]
Col(name, val) == [name |-> name, val |-> val]

\* the sequence s[1], ..., s[n] mapped through Op
SeqMap(Op(_), s) == [j \in 1..Len(s) |-> Op(s[j])]

RECURSIVE SeqSum(_)
SeqSum(s) == IF Len(s) = 0 THEN 0 ELSE Head(s) + SeqSum(Tail(s))

\* JavaScript truthiness of a value, as `params ? params : null` tests it
Truthy(v) ==
    CASE v.k = "undef" -> FALSE
      [] v.k = "null" -> FALSE
      [] v.k = "num" -> v.n # 0
      [] v.k = "str" -> v.s # ""
      [] OTHER -> TRUE

\* JSON.parse(JSON.stringify(v)) for a leaf: undefined inside an array
\* becomes null
JsonLeafInArray(v) == IF v.k = "undef" THEN Null ELSE v

\* JSON.parse(JSON.stringify(o)) for the properties of an object whose
\* values are leaves: a property holding undefined is dropped
JsonProps(o) ==
    [nm \in {x \in DOMAIN o : o[x].k # "undef"} |-> o[nm]]

\* JSON.parse(JSON.stringify(v)) of an element of the top-level array
JsonElement(v) ==
    CASE v.k = "arr" -> Arr(SeqMap(JsonLeafInArray, v.a))
      [] v.k = "obj" -> Obj(JsonProps(v.o))
      [] OTHER -> JsonLeafInArray(v)

\* JSON.parse(JSON.stringify(params ? params : null)), db.js line 79
JsonClone(v) ==
    IF ~Truthy(v) THEN Null
    ELSE CASE v.k = "arr" -> Arr(SeqMap(JsonElement, v.a))
           [] v.k = "obj" -> Obj(JsonProps(v.o))
           [] OTHER -> v

\* ------------------------------------------------------------------ SQL text

(* A statement's text is the kind of statement the server sees and the     *)
(* placeholder tokens in textual order.  kind: "dml" changes rows inside   *)
(* the current transaction, "ddl" forces an implicit commit (README,       *)
(* Transactions), "select" returns a row set, "set0"/"set1" is             *)
(* SET autocommit=0/1.  A token is [t |-> ":" | "?" | "$", name, n].       *)
Sql(kind, toks) == [kind |-> kind, toks |-> toks]
Named(name) == [t |-> ":", name |-> name, n |-> 0]
Positional == [t |-> "?", name |-> "", n |-> 0]
CrossRef(n) == [t |-> "$", name |-> "", n |-> n]

\* a parameter reference: a property name (":") or an index ("?", "$")
NameRef(name) == [name |-> name, idx |-> -1]
IdxRef(i) == [name |-> "", idx |-> i]

\* parseSql: the references and type tags of the matches, in textual order;
\* a "?" is given the index of its match among all the matches
parseSql(sql) ==
    [ rawSql |-> sql,
      sql |-> Sql(sql.kind, [j \in 1..Len(sql.toks) |-> Positional]),
      paramRefs |-> [j \in 1..Len(sql.toks) |->
                        CASE sql.toks[j].t = ":" -> NameRef(sql.toks[j].name)
                          [] sql.toks[j].t = "$" -> IdxRef(sql.toks[j].n)
                          [] OTHER -> IdxRef(j - 1)],
      paramTypes |-> [j \in 1..Len(sql.toks) |-> sql.toks[j].t],
      bindStyles |-> {sql.toks[j].t : j \in 1..Len(sql.toks)} ]

\* computeParamShape not looking at the first element of an array
computeParamShapeTopOnly(params) ==
    CASE params.k \in {"null", "undef"} -> "false"
      [] params.k = "obj" -> "object"
      [] params.k # "arr" -> "scalar"
      [] OTHER -> "array"

\* computeParamShape: false (here "false"), "scalar", "object", "array",
\* "array.array" or "array.object", decided by the first element alone
computeParamShape(params) ==
    CASE params.k \in {"null", "undef"} -> "false"
      [] params.k = "obj" -> "object"
      [] params.k # "arr" -> "scalar"
      [] Len(params.a) = 0 -> "array"
      [] params.a[1].k \in {"null", "undef"} -> "array"
      [] params.a[1].k = "arr" -> "array.array"
      [] params.a[1].k = "obj" -> "array.object"
      [] OTHER -> "array"

IsNullish(v) == v.k \in {"null", "undef"}

\* the null check of doAction, lines 98-123: TRUE when it throws
HasNullLeaf(params) ==
    CASE params.k = "arr" ->
            \E j \in 1..Len(params.a) :
                LET param == params.a[j] IN
                \/ IsNullish(param)
                \/ /\ param.k = "arr"
                   /\ \E m \in 1..Len(param.a) : IsNullish(param.a[m])
                \/ /\ param.k = "obj"
                   /\ \E nm \in DOMAIN param.o : IsNullish(param.o[nm])
      [] params.k = "obj" ->
            \E nm \in DOMAIN params.o : IsNullish(params.o[nm])
      [] OTHER -> FALSE

\* doAction refusing any two placeholder styles in one statement, $n too
doActionOneStyleOnly(opcode, sql, rawParams, dflt) ==
    LET params == JsonClone(rawParams)
        parsed == parseSql(sql)
        shape == computeParamShape(params)
    IN  CASE Cardinality(parsed.bindStyles) > 1 -> [error |-> "mixed"]
          [] "?" \in parsed.bindStyles /\ shape \notin {"array", "array.array"} ->
                [error |-> "shape?"]
          [] ":" \in parsed.bindStyles /\ shape \notin {"object", "array.object"} ->
                [error |-> "shape:"]
          [] HasNullLeaf(params) -> [error |-> "null"]
          [] OTHER ->
                [ error |-> "",
                  opcode |-> opcode,
                  dflt |-> dflt,
                  rawSql |-> parsed.rawSql,
                  sql |-> parsed.sql,
                  paramRefs |-> parsed.paramRefs,
                  paramTypes |-> parsed.paramTypes,
                  paramVals |-> params,
                  paramShape |-> shape,
                  isMulti |-> shape \in {"array.array", "array.object"} ]

\* doAction: the operation record, or [error |-> message kind]
doAction(opcode, sql, rawParams, dflt) ==
    LET params == JsonClone(rawParams)
        parsed == parseSql(sql)
        shape == computeParamShape(params)
    IN  CASE ":" \in parsed.bindStyles /\ "?" \in parsed.bindStyles ->
                [error |-> "mixed"]
          [] "?" \in parsed.bindStyles /\ shape \notin {"array", "array.array"} ->
                [error |-> "shape?"]
          [] ":" \in parsed.bindStyles /\ shape \notin {"object", "array.object"} ->
                [error |-> "shape:"]
          [] HasNullLeaf(params) -> [error |-> "null"]
          [] OTHER ->
                [ error |-> "",
                  opcode |-> opcode,
                  dflt |-> dflt,
                  rawSql |-> parsed.rawSql,
                  sql |-> parsed.sql,
                  paramRefs |-> parsed.paramRefs,
                  paramTypes |-> parsed.paramTypes,
                  paramVals |-> params,
                  paramShape |-> shape,
                  isMulti |-> shape \in {"array.array", "array.object"} ]


\* ------------------------------------------------------------------ binding

Frac(t) == [k |-> "frac", t |-> t]
NaN == [k |-> "nan"]

\* explicitParams[paramRef]: an element of an array by index, a property of
\* an object by name, undefined otherwise
GetProp(v, ref) ==
    CASE v.k = "arr" ->
            IF ref.name = "" /\ ref.idx >= 0 /\ ref.idx < Len(v.a)
            THEN v.a[ref.idx + 1] ELSE Undef
      [] v.k = "obj" ->
            IF ref.name \in DOMAIN v.o THEN v.o[ref.name] ELSE Undef
      [] OTHER -> Undef

\* makeArgs taking a "$" reference from the explicit parameters
makeArgsExplicitOnly(paramRefs, paramTypes, explicitParams, paramsFromPriorResults) ==
    LET explicit == IF IsNullish(explicitParams) THEN Arr(<<>>) ELSE explicitParams
    IN  [j \in 1..Len(paramRefs) |-> GetProp(explicit, paramRefs[j])]

\* makeArgs: one argument per placeholder, "$" from the results so far,
\* ":" and "?" from the explicit parameters of the row
makeArgs(paramRefs, paramTypes, explicitParams, paramsFromPriorResults) ==
    LET explicit == IF IsNullish(explicitParams) THEN Arr(<<>>) ELSE explicitParams
    IN  [j \in 1..Len(paramRefs) |->
            IF paramTypes[j] = "$"
            THEN IF paramRefs[j].idx < Len(paramsFromPriorResults)
                 THEN paramsFromPriorResults[paramRefs[j].idx + 1]
                 ELSE Undef
            ELSE GetProp(explicit, paramRefs[j])]

\* ParamRows iterating over every container that is an array
ParamRowsAnyArray(op) ==
    IF op.paramVals.k = "arr" THEN op.paramVals.a ELSE <<op.paramVals>>

\* the rows doExecute and doQuery iterate over: the container itself when
\* the operation is multi-row, the container wrapped in an array otherwise
ParamRows(op) == IF op.isMulti THEN op.paramVals.a ELSE <<op.paramVals>>

\* ------------------------------------------------------------------ results

Throw == [k |-> "throw"]

\* parseFloat("" + vl) on the texts the driver returns here: the longest
\* numeric prefix, NaN when there is none
ParseFloatText(s) ==
    CASE s = "7" -> Num(7)
      [] s = "7up" -> Num(7)
      [] s = "42.5" -> Frac(425)
      [] OTHER -> NaN

\* "" + vl
TextOf(vl) ==
    CASE vl.k = "str" -> vl.s
      [] vl.k = "num" -> ToString(vl.n)
      [] vl.k = "frac" -> "42.5"
      [] vl.k = "nan" -> "NaN"
      [] OTHER -> "[object Object]"

\* formatResult without the Number.isInteger checks of queryInt and with
\* queryString returning the value as the driver gave it
formatResultUnchecked(op, resultSet) ==
    IF op.opcode = "q"
    THEN IF resultSet.k = "arr" THEN resultSet ELSE Throw
    ELSE CASE resultSet.k # "arr" -> op.dflt
           [] Len(resultSet.a) = 0 -> op.dflt
           [] resultSet.a[1].k # "row" -> op.dflt
           [] Len(resultSet.a[1].cols) = 0 -> op.dflt
           [] OTHER ->
                LET vl == resultSet.a[1].cols[1].val
                    parsed == ParseFloatText(TextOf(vl))
                IN  CASE IsNullish(vl) -> op.dflt
                      [] op.opcode = "qi" ->
                            IF vl.k \in {"num", "frac"} THEN vl
                            ELSE IF parsed.k = "nan" THEN op.dflt ELSE parsed
                      [] op.opcode = "qf" ->
                            IF vl.k \in {"num", "frac"} THEN vl
                            ELSE IF parsed.k = "nan" THEN op.dflt ELSE parsed
                      [] OTHER -> vl

\* formatResult giving what parseFloat returned, NaN too, and not the default
formatResultNoFallback(op, resultSet) ==
    IF op.opcode = "q"
    THEN IF resultSet.k = "arr" THEN resultSet ELSE Throw
    ELSE CASE resultSet.k # "arr" -> op.dflt
           [] Len(resultSet.a) = 0 -> op.dflt
           [] resultSet.a[1].k # "row" -> op.dflt
           [] Len(resultSet.a[1].cols) = 0 -> op.dflt
           [] OTHER ->
                LET vl == resultSet.a[1].cols[1].val
                    parsed == ParseFloatText(TextOf(vl))
                IN  CASE IsNullish(vl) -> op.dflt
                      [] op.opcode = "qi" -> IF vl.k = "num" THEN vl ELSE parsed
                      [] op.opcode = "qf" ->
                            IF vl.k \in {"num", "frac"} THEN vl ELSE parsed
                      [] op.opcode = "qs" ->
                            IF vl.k = "str" THEN vl ELSE Str(TextOf(vl))
                      [] OTHER -> vl

\* formatResult: the rows copied for "q"; for the scalar opcodes the first
\* column of the first row, coerced, or the default.  Throw when resultSet
\* has no forEach (the driver returned a result header or nothing).
formatResult(op, resultSet) ==
    IF op.opcode = "q"
    THEN IF resultSet.k = "arr" THEN resultSet ELSE Throw
    ELSE CASE resultSet.k # "arr" -> op.dflt
           [] Len(resultSet.a) = 0 -> op.dflt
           [] resultSet.a[1].k # "row" -> op.dflt
           [] Len(resultSet.a[1].cols) = 0 -> op.dflt
           [] OTHER ->
                LET vl == resultSet.a[1].cols[1].val
                    parsed == ParseFloatText(TextOf(vl))
                IN  CASE IsNullish(vl) -> op.dflt
                      [] op.opcode = "qi" ->
                            IF vl.k = "num" THEN vl
                            ELSE IF parsed.k = "num" THEN parsed ELSE op.dflt
                      [] op.opcode = "qf" ->
                            IF vl.k \in {"num", "frac"} THEN vl
                            ELSE IF parsed.k = "nan" THEN op.dflt ELSE parsed
                      [] op.opcode = "qs" ->
                            IF vl.k = "str" THEN vl ELSE Str(TextOf(vl))
                      [] OTHER -> vl


\* ------------------------------------------------------------------ state

Stages == {"s1", "s2"}

\* a connection configuration: an object (text is its JSON form) or null;
\* NoStage stands for a stage that db.stage was never called for
CfgA == [kind |-> "obj", text |-> "A"]
CfgB == [kind |-> "obj", text |-> "B"]
CfgNull == [kind |-> "null", text |-> ""]
NoStage == [kind |-> "none", text |-> ""]

\* getPool, line 179: the registry key of a configuration
PoolKey(dbcfg) == dbcfg.text

Keys == {"A", "B"}
\* the connections of a pool
ConnIds == Keys \X {1, 2}
NoConn == <<"", 0>>

\* the affected-row counts the server reports for a row-changing statement
AffectedCounts == {1, 2}
\* the row sets the server returns for a select
RowSets == {Arr(<<>>), Arr(<<Row(<<Col("c", Num(7))>>)>>)}

VARIABLES
    cfg,            \* cfg[s]: the configuration stage s was created with
    menu,           \* menu[s]: what the owner of stage s does with it: the
                    \* calls it appends operations with (reqs), how many
                    \* of them it makes (appends), how many times it calls
                    \* finale (finales); and the row sets the server has
                    \* for the selects of s (rowSets)
    ops,            \* ops[s]: the operations appended to stage s
    finaleComplete, \* ops.finaleComplete of stage s
    finaleCalls,    \* how many times finale was called on stage s
    closing,        \* POOL_FUNCTIONS._closing
    pools,          \* POOL_FUNCTIONS._pools: the keys, in insertion order
    poolEnds,       \* poolEnds[key]: how many times pool.end was called
    ctx,            \* ctx[s]: the closure of stage s's finalization
    conns,          \* conns[c]: session state of connection c and who holds it
    committed,      \* the effects committed in the database
    calls,          \* calls[s]: the driver calls of s's finalization, in order
    cbs,            \* cbs[s]: the invocations of the finale callbacks of s
    thrown,         \* thrown[s]: the errors thrown to the caller of a method
                    \* of stage s, in order
    curtains,       \* the calls of curtains: pools left to close, progress,
                    \* the pools cached at the call, those that have closed
    held            \* held[s][k]: the parameter container the caller passed
                    \* when it appended operation k of s (given), and that
                    \* container as the caller has it now (now)

vars == <<cfg, menu, ops, finaleComplete, finaleCalls, closing, pools, poolEnds,
          ctx, conns, committed, calls, cbs, thrown, curtains, held>>

\* the effect of the statement of row i (0-based) of operation k (0-based)
\* of stage s
Token(s, k, i) == <<s, k, i>>
TokensOf(s) == {tk \in committed : tk[1] = s}

Pending == [k |-> "pending"]
Ok == [k |-> "done"]
Err(e) == [k |-> "err", e |-> e]

\* a driver call as the log keeps it
CallRec(call, conn, k, i, kind, args) ==
    [call |-> call, conn |-> conn, k |-> k, i |-> i, kind |-> kind,
     args |-> args, res |-> Pending]

Ctx0 ==
    [ pc |-> "idle", bTransact |-> FALSE, singularOperation |-> FALSE,
      results |-> <<>>, transactionHasStarted |-> FALSE, conn |-> NoConn,
      pool |-> "", poolErr |-> "", err |-> "", rv |-> Undef, call |-> 0,
      autocommit |-> FALSE, nops |-> 0, operations |-> Undef,
      cur |-> "", i |-> 0, total |-> 0, resultsFromThisOp |-> <<>> ]

Conn0 == [ac |-> 1, pendingFx |-> {}, owner |-> ""]

\* the part of the state a finalization reads and writes
World == [ctx |-> ctx, conns |-> conns, committed |-> committed, calls |-> calls]

Store(w) ==
    /\ ctx' = w.ctx
    /\ conns' = w.conns
    /\ committed' = w.committed
    /\ calls' = w.calls

Issue(w, s, rec) == [w EXCEPT !.calls[s] = Append(@, rec)]
Complete(w, s, res) == [w EXCEPT !.calls[s][Len(w.calls[s])].res = res]
Goto(w, s, pc) == [w EXCEPT !.ctx[s].pc = pc]

\* ------------------------------------------------------------------ driver

\* what the server does with a statement that succeeds on connection cn:
\* SET autocommit sets the session's mode; a row-changing statement is
\* committed at once with autocommit on and stays pending with it off; a
\* statement that forces an implicit commit commits itself and all that is
\* pending on the session (README, Transactions)
serverExecute(w, cn, kind, tk) ==
    CASE kind = "set0" -> [w EXCEPT !.conns[cn].ac = 0]
      [] kind = "set1" -> [w EXCEPT !.conns[cn].ac = 1]
      [] kind = "dml" ->
            IF w.conns[cn].ac = 1
            THEN [w EXCEPT !.committed = @ \cup {tk}]
            ELSE [w EXCEPT !.conns[cn].pendingFx = @ \cup {tk}]
      [] kind = "ddl" ->
            [w EXCEPT !.committed = @ \cup w.conns[cn].pendingFx \cup {tk},
                      !.conns[cn].pendingFx = {}]
      [] OTHER -> w

\* conn.commit succeeding: what is pending on the session is committed
serverCommit(w, cn) ==
    [w EXCEPT !.committed = @ \cup w.conns[cn].pendingFx,
              !.conns[cn].pendingFx = {}]

\* conn.rollback succeeding: what is pending on the session is discarded
serverRollback(w, cn) == [w EXCEPT !.conns[cn].pendingFx = {}]

\* the results conn.execute can call back with for a statement, a select
\* answered with one of rowSets
ExecOutcomes(kind, rowSets) ==
    {Err("stmt")} \cup
    CASE kind = "dml" -> {OkPacket(n) : n \in AffectedCounts}
      [] kind = "select" -> rowSets
      [] OTHER -> {OkPacket(0)}


\* ------------------------------------------------------------------ finalization

\* POOL_FUNCTIONS.releaseConnection: conn.release()
releaseConnection(w, s, conn) ==
    Complete(Issue([w EXCEPT !.conns[conn].owner = ""], s,
                   CallRec("release", conn, -1, -1, "", <<>>)), s, Ok)

\* finalize, line 293: the bare first result for a stage that held one
\* operation when finale was called, the results array otherwise
ResultToDeliver(c) ==
    IF c.singularOperation
    THEN IF Len(c.results) > 0 THEN c.results[1] ELSE Undef
    ELSE Arr(c.results)

\* finalize releasing the connection only after a rollback
finalizeNoRelease(w, s, conn, err) ==
    LET w1 == [w EXCEPT !.ctx[s].err = err,
                        !.ctx[s].rv = ResultToDeliver(w.ctx[s])]
    IN  IF conn # NoConn /\ w.ctx[s].transactionHasStarted
        THEN Goto(Issue(w1, s, CallRec("rollback", conn, -1, -1, "", <<>>)),
                  s, "rollback")
        ELSE Goto(w1, s, "cb")

\* finalize rolling back only when it is given an error
finalizeRollbackOnError(w, s, conn, err) ==
    LET w1 == [w EXCEPT !.ctx[s].err = err,
                        !.ctx[s].rv = ResultToDeliver(w.ctx[s])]
    IN  IF conn # NoConn
        THEN IF w.ctx[s].transactionHasStarted /\ err # ""
             THEN Goto(Issue(w1, s, CallRec("rollback", conn, -1, -1, "", <<>>)),
                       s, "rollback")
             ELSE Goto(releaseConnection(w1, s, conn), s, "cb")
        ELSE Goto(w1, s, "cb")

\* finalize: rollback when the transaction has started, then release, then
\* the callback on the next tick
finalize(w, s, conn, err) ==
    LET w1 == [w EXCEPT !.ctx[s].err = err,
                        !.ctx[s].rv = ResultToDeliver(w.ctx[s])]
    IN  IF conn # NoConn
        THEN IF w.ctx[s].transactionHasStarted
             THEN Goto(Issue(w1, s, CallRec("rollback", conn, -1, -1, "", <<>>)),
                       s, "rollback")
             ELSE Goto(releaseConnection(w1, s, conn), s, "cb")
        ELSE Goto(w1, s, "cb")

\* afterRollback handing the rollback's error to the callback
afterRollbackSurfaceErr(w, s, rollbackErr) ==
    Goto(releaseConnection(
            [w EXCEPT !.ctx[s].err = IF rollbackErr # "" THEN rollbackErr ELSE @],
            s, w.ctx[s].conn), s, "cb")

\* finalize, lines 296-300: the callback of conn.rollback takes no argument,
\* so the rollback's error is dropped; the connection is released
afterRollback(w, s, rollbackErr) ==
    Goto(releaseConnection(w, s, w.ctx[s].conn), s, "cb")

\* setCommitOp with the two modes exchanged
setCommitOpInverted(bTransact) ==
    doAction("e", Sql(IF bTransact THEN "set1" ELSE "set0", <<>>), Undef, Undef)

\* doFinale, line 247: the SET autocommit operation
setCommitOp(bTransact) ==
    doAction("e", Sql(IF bTransact THEN "set0" ELSE "set1", <<>>), Undef, Undef)

\* the operation whose statement is being executed
CurOp(w, s) ==
    IF w.ctx[s].cur = "setac"
    THEN setCommitOp(w.ctx[s].bTransact)
    ELSE ops[s][Len(w.ctx[s].results) + 1]

\* afterOps with the error check of line 256 left out: commit also after a
\* failed operation
afterOpsCommitAlways(w, s, err) ==
    LET c == w.ctx[s] IN
    IF c.bTransact
    THEN Goto(Issue(w, s, CallRec("commit", c.conn, -1, -1, "", <<>>)), s, "commit")
    ELSE finalize(w, s, c.conn, err)

\* doFinale, lines 255-260 and 263-265: the callback given to fillInResults
afterOps(w, s, err) ==
    LET c == w.ctx[s] IN
    IF c.bTransact
    THEN IF err # ""
         THEN finalize(w, s, c.conn, err)
         ELSE Goto(Issue(w, s, CallRec("commit", c.conn, -1, -1, "", <<>>)),
                   s, "commit")
    ELSE finalize(w, s, c.conn, err)

\* OpResult unwrapping the result of a query whenever it made one execution
OpResultUnwrapSingle(op, c) ==
    IF op.opcode = "e" THEN Num(c.total)
    ELSE IF Len(c.resultsFromThisOp) > 1 THEN Arr(c.resultsFromThisOp)
    ELSE IF Len(c.resultsFromThisOp) > 0 THEN c.resultsFromThisOp[1] ELSE Undef

\* the result doExecute (line 348) and doQuery (lines 381-383) call back with
OpResult(op, c) ==
    IF op.opcode = "e" THEN Num(c.total)
    ELSE IF op.isMulti THEN Arr(c.resultsFromThisOp)
    ELSE IF Len(c.resultsFromThisOp) > 0 THEN c.resultsFromThisOp[1] ELSE Undef

RECURSIVE fillInResults(_, _), doNextExec(_, _), opCallback(_, _, _, _)

\* afterSetCommit marking the transaction as started when it issues begin,
\* before begin has succeeded
afterSetCommitMarkEarly(w, s, err) ==
    LET c == w.ctx[s] IN
    IF err # "" THEN finalize(w, s, c.conn, err)
    ELSE IF c.bTransact
         THEN Goto(Issue([w EXCEPT !.ctx[s].transactionHasStarted = TRUE], s,
                         CallRec("begin", c.conn, -1, -1, "", <<>>)),
                   s, "begin")
         ELSE fillInResults(w, s)

\* afterSetCommit going on to begin or to the operations whether or not
\* SET autocommit failed
afterSetCommitIgnoreErr(w, s, err) ==
    LET c == w.ctx[s] IN
    IF c.bTransact
    THEN Goto(Issue(w, s, CallRec("begin", c.conn, -1, -1, "", <<>>)),
              s, "begin")
    ELSE fillInResults(w, s)

\* doFinale, lines 248-266: the callback of the SET autocommit execution
afterSetCommit(w, s, err) ==
    LET c == w.ctx[s] IN
    IF err # "" THEN finalize(w, s, c.conn, err)
    ELSE IF c.bTransact
         THEN Goto(Issue(w, s, CallRec("begin", c.conn, -1, -1, "", <<>>)),
                   s, "begin")
         ELSE fillInResults(w, s)

\* the callback doExecute and doQuery are given: that of doFinale for the
\* SET autocommit operation, that of fillInResults (lines 279-286) otherwise
opCallback(w, s, err, result) ==
    IF w.ctx[s].cur = "setac" THEN afterSetCommit(w, s, err)
    ELSE IF err # "" THEN afterOps(w, s, err)
    ELSE fillInResults([w EXCEPT !.ctx[s].results = Append(@, result)], s)

\* fillInResults giving up with the shutdown error once curtains was called
fillInResultsStopsAtShutdown(w, s) ==
    IF closing
    THEN afterOps(w, s, "closing")
    ELSE IF Len(ops[s]) = Len(w.ctx[s].results)
    THEN afterOps(w, s, "")
    ELSE doNextExec([w EXCEPT !.ctx[s].cur = "op", !.ctx[s].i = 0,
                              !.ctx[s].total = 0,
                              !.ctx[s].resultsFromThisOp = <<>>], s)

\* fillInResults done as soon as it has one result
fillInResultsFirstOnly(w, s) ==
    IF Len(ops[s]) = Len(w.ctx[s].results) \/ Len(w.ctx[s].results) >= 1
    THEN afterOps(w, s, "")
    ELSE doNextExec([w EXCEPT !.ctx[s].cur = "op", !.ctx[s].i = 0,
                              !.ctx[s].total = 0,
                              !.ctx[s].resultsFromThisOp = <<>>], s)

\* fillInResults: done when there are as many results as the stage has
\* operations now; otherwise the next operation is started
fillInResults(w, s) ==
    IF Len(ops[s]) = Len(w.ctx[s].results)
    THEN afterOps(w, s, "")
    ELSE doNextExec([w EXCEPT !.ctx[s].cur = "op", !.ctx[s].i = 0,
                              !.ctx[s].total = 0,
                              !.ctx[s].resultsFromThisOp = <<>>], s)

\* doNextExec handing makeArgs the results so far with the running total
\* of the operation at work appended
doNextExecSeesOwnTotal(w, s) ==
    LET c == w.ctx[s]
        op == CurOp(w, s)
        rows == ParamRows(op)
    IN  IF c.i >= Len(rows)
        THEN opCallback(w, s, "", OpResult(op, c))
        ELSE Goto(Issue(w, s,
                    CallRec("exec", c.conn,
                            IF c.cur = "setac" THEN -1 ELSE Len(c.results),
                            c.i, op.sql.kind,
                            makeArgs(op.paramRefs, op.paramTypes, rows[c.i + 1],
                                     IF c.cur = "setac" THEN <<>>
                                     ELSE Append(c.results, Num(c.total))))),
                  s, "exec")

\* doNextExec handing makeArgs one results list that all finalizations
\* share, the one with the most entries
doNextExecSharedResults(w, s) ==
    LET c == w.ctx[s]
        op == CurOp(w, s)
        rows == ParamRows(op)
        longest == CHOOSE x \in Stages :
                      \A y \in Stages : Len(w.ctx[y].results) <= Len(w.ctx[x].results)
    IN  IF c.i >= Len(rows)
        THEN opCallback(w, s, "", OpResult(op, c))
        ELSE Goto(Issue(w, s,
                    CallRec("exec", c.conn,
                            IF c.cur = "setac" THEN -1 ELSE Len(c.results),
                            c.i, op.sql.kind,
                            makeArgs(op.paramRefs, op.paramTypes, rows[c.i + 1],
                                     IF c.cur = "setac" THEN <<>>
                                     ELSE w.ctx[longest].results))),
                  s, "exec")

\* doNextExec sending the statement of the next row along with that of
\* the current one, without waiting for the current one to complete
doNextExecPipelined(w, s) ==
    LET c == w.ctx[s]
        op == CurOp(w, s)
        rows == ParamRows(op)
        k == IF c.cur = "setac" THEN -1 ELSE Len(c.results)
        prior == IF c.cur = "setac" THEN <<>> ELSE c.results
        send(x, r) == Issue(x, s, CallRec("exec", c.conn, k, r, op.sql.kind,
                                          makeArgs(op.paramRefs, op.paramTypes,
                                                   rows[r + 1], prior)))
    IN  IF c.i >= Len(rows)
        THEN opCallback(w, s, "", OpResult(op, c))
        ELSE IF c.i + 1 < Len(rows)
        THEN Goto([send(send(w, c.i), c.i + 1) EXCEPT !.ctx[s].i = c.i + 1], s, "exec")
        ELSE Goto(send(w, c.i), s, "exec")

\* doNextExec of doExecute and of doQuery: the operation's result when the
\* rows are exhausted, else the statement is sent with the row's arguments
doNextExec(w, s) ==
    LET c == w.ctx[s]
        op == CurOp(w, s)
        rows == ParamRows(op)
    IN  IF c.i >= Len(rows)
        THEN opCallback(w, s, "", OpResult(op, c))
        ELSE Goto(Issue(w, s,
                    CallRec("exec", c.conn,
                            IF c.cur = "setac" THEN -1 ELSE Len(c.results),
                            c.i, op.sql.kind,
                            makeArgs(op.paramRefs, op.paramTypes, rows[c.i + 1],
                                     IF c.cur = "setac" THEN <<>> ELSE c.results))),
                  s, "exec")

\* doExecute, line 356: the affected rows of one execution
RowsAffected(res) ==
    IF res.k = "ok" /\ res.affectedRows # 0 THEN res.affectedRows ELSE 0

\* onExecResult keeping the affected rows of the last execution only
onExecResultLastCount(w, s, res) ==
    LET op == CurOp(w, s) IN
    IF res.k = "err"
    THEN opCallback(w, s, IF w.ctx[s].cur = "setac" THEN "setac" ELSE "op", Null)
    ELSE IF op.opcode = "e"
    THEN doNextExec([w EXCEPT !.ctx[s].total = RowsAffected(res),
                              !.ctx[s].i = @ + 1], s)
    ELSE IF formatResult(op, res).k = "throw"
    THEN Goto(w, s, "crashed")
    ELSE doNextExec([w EXCEPT !.ctx[s].resultsFromThisOp =
                                  Append(@, formatResult(op, res)),
                              !.ctx[s].i = @ + 1], s)

\* the callback of conn.execute in doExecute (lines 354-360) and in doQuery
\* (lines 389-394); formatResult throwing there is an uncaught exception
onExecResult(w, s, res) ==
    LET op == CurOp(w, s) IN
    IF res.k = "err"
    THEN opCallback(w, s, IF w.ctx[s].cur = "setac" THEN "setac" ELSE "op", Null)
    ELSE IF op.opcode = "e"
    THEN doNextExec([w EXCEPT !.ctx[s].total = @ + RowsAffected(res),
                              !.ctx[s].i = @ + 1], s)
    ELSE IF formatResult(op, res).k = "throw"
    THEN Goto(w, s, "crashed")
    ELSE doNextExec([w EXCEPT !.ctx[s].resultsFromThisOp =
                                  Append(@, formatResult(op, res)),
                              !.ctx[s].i = @ + 1], s)


\* ------------------------------------------------------------------ catalog

\* the calls of execute, query and queryInt the stages are built from, as
\* [opcode, sql, params, dflt]
Request(opcode, sql, params, dflt) ==
    [opcode |-> opcode, sql |-> sql, params |-> params, dflt |-> dflt]

ReqInsertMany ==
    Request("e", Sql("dml", <<Positional>>),
            Arr([j \in 1..MaxRows |-> Arr(<<Num(j)>>)]), Undef)
ReqCreate == Request("e", Sql("ddl", <<>>), Undef, Undef)
ReqCount == Request("qi", Sql("select", <<>>), Undef, Num(0))
ReqInsertRef == Request("e", Sql("dml", <<CrossRef(0)>>), Undef, Undef)
ReqQuery ==
    Request("q", Sql("select", <<Named("id")>>), Obj([id |-> Num(1)]), Undef)

\* query() given a statement that returns no row set
ReqQueryInsert == Request("q", Sql("dml", <<>>), Undef, Undef)

\* the parameter containers execute is called with: absent, scalars (one
\* of them falsy), flat and empty arrays, a flat object, an array of arrays,
\* an array of objects, and each kind holding a null or an undefined leaf
Containers ==
    { Undef, Null, Num(5), Num(0), Str("x"),
      Arr(<<Num(1)>>), Arr(<<>>), Obj([a |-> Num(1)]),
      Arr(<<Arr(<<Num(1)>>), Arr(<<Num(2)>>)>>),
      Arr(<<Obj([a |-> Num(1)]), Obj([a |-> Num(2)])>>),
      Arr(<<Null>>), Arr(<<Undef>>),
      Obj([a |-> Null]), Obj([a |-> Undef]),
      Arr(<<Arr(<<Num(1)>>), Arr(<<Null>>)>>),
      Arr(<<Arr(<<Num(1)>>), Arr(<<Undef>>)>>),
      Arr(<<Obj([a |-> Num(1)]), Obj([a |-> Null])>>),
      Arr(<<Obj([a |-> Num(1)]), Obj([a |-> Undef])>>) }

\* the statements execute is called with: each placeholder style alone, the
\* two mixed, $0 with each, and no placeholder
Statements ==
    { Sql("dml", <<Positional>>), Sql("dml", <<Named("a")>>),
      Sql("dml", <<Named("a"), Positional>>),
      Sql("dml", <<CrossRef(0), Positional>>),
      Sql("dml", <<CrossRef(0), Named("a")>>),
      Sql("dml", <<>>) }

ConstructCatalog ==
    {Request("e", sql, params, Undef) : sql \in Statements, params \in Containers}

\* queryInt, queryFloat and queryString, each with its default
ReqInt == Request("qi", Sql("select", <<>>), Undef, Num(-1))
ReqFloat == Request("qf", Sql("select", <<>>), Undef, Num(-1))
ReqString == Request("qs", Sql("select", <<>>), Undef, Str("dflt"))

ScalarCatalog == {ReqInt, ReqFloat, ReqString}

\* what the driver answers a scalar query with: no result set, no row, one
\* row whose first column is a number, a text or nothing, a row of two
\* columns, two rows
OneCell(val) == Arr(<<Row(<<Col("c", val)>>)>>)
CoerceRowSets ==
    { Undef, Arr(<<>>), Arr(<<Row(<<>>)>>),
      Arr(<<Row(<<Col("c", Null), Col("d", Num(9))>>)>>),
      Arr(<<Row(<<Col("c", Num(7)), Col("d", Num(9))>>)>>),
      Arr(<<Row(<<Col("c", Undef)>>), Row(<<Col("c", Num(9))>>)>>),
      Arr(<<Row(<<Col("c", Str("7"))>>), Row(<<Col("c", Num(9))>>)>>) }
    \cup {OneCell(val) : val \in {Num(7), Frac(425), Str("7"), Str("7up"),
                                    Str("42.5"), Str("abc"), Null, Undef}}

\* execute with a "?" and a $1 in its statement, given MaxRows rows
ReqInsertManyRef ==
    Request("e", Sql("dml", <<Positional, CrossRef(1)>>),
            Arr([j \in 1..MaxRows |-> Arr(<<Num(j)>>)]), Undef)

\* the calls whose statements refer to results: of the operation before, of
\* the operation itself, of a later one
RefCatalog == {ReqCount, ReqInsertRef, ReqInsertManyRef}

\* queryInt given MaxRows rows of positional parameters, and query given
\* an array holding one row of named parameters
ReqCountMany ==
    Request("qi", Sql("select", <<Positional>>),
            Arr([j \in 1..MaxRows |-> Arr(<<Num(j)>>)]), Num(0))
ReqQueryOneRow ==
    Request("q", Sql("select", <<Named("id")>>), Arr(<<Obj([id |-> Num(1)])>>), Undef)

\* the queries: with one set of parameters, with none, with rows of them
QueryCatalog == {ReqQuery, ReqCount, ReqCountMany, ReqQueryOneRow}

\* queryInt with a $0 in its statement
ReqCountRef == Request("qi", Sql("select", <<CrossRef(0)>>), Undef, Num(0))

\* the calls made on a stage
Catalog ==
    {ReqInsertMany, ReqCreate, ReqCount, ReqInsertRef, ReqQuery, ReqQueryInsert}

\* ------------------------------------------------------------------ actions

\* an invocation of a finale callback: which call of finale it answers,
\* the error and the result it is given
CbRec(call, err, rv) == [call |-> call, err |-> err, rv |-> rv]

Menu(reqs, appends, finales, rowSets) ==
    [reqs |-> reqs, appends |-> appends, finales |-> finales, rowSets |-> rowSets]

\* the state before any call: nothing was appended, called or created
InitRest ==
    /\ ops = [s \in Stages |-> <<>>]
    /\ finaleComplete = [s \in Stages |-> FALSE]
    /\ finaleCalls = [s \in Stages |-> 0]
    /\ closing = FALSE
    /\ pools = <<>>
    /\ poolEnds = [key \in Keys |-> 0]
    /\ ctx = [s \in Stages |-> Ctx0]
    /\ conns = [c \in ConnIds |-> Conn0]
    /\ committed = {}
    /\ calls = [s \in Stages |-> <<>>]
    /\ cbs = [s \in Stages |-> <<>>]
    /\ thrown = [s \in Stages |-> <<>>]
    /\ curtains = <<>>
    /\ held = [s \in Stages |-> <<>>]

\* one stage, given any operation of the catalog
Init ==
    /\ cfg = [s \in Stages |-> IF s = "s1" THEN CfgA ELSE NoStage]
    /\ menu = [s \in Stages |->
                 IF s = "s1" THEN Menu(Catalog, MaxOps, MaxFinaleCalls, RowSets)
                 ELSE Menu({}, 0, 0, {})]
    /\ InitRest

\* a container the caller passed to a stage method, as passed and as it is;
\* at: how many driver calls the finalization had made when the caller
\* changed it, -1 while it has not
Held(given, now) == [given |-> given, now |-> now, at |-> -1]

\* a call of a stage method that threw: the method, its request, the error
ThrownRec(by, req, error) == [by |-> by, req |-> req, error |-> error]

\* DbStage.execute, query, queryInt, ...: ops.push(doAction(...)); when
\* doAction throws, the error goes to the caller and push is not reached
StageAppend(s, req) ==
    /\ cfg[s] # NoStage
    /\ Len(ops[s]) + Len(thrown[s]) < menu[s].appends
    /\ LET op == doAction(req.opcode, req.sql, req.params, req.dflt) IN
       IF op.error = ""
       THEN /\ ops' = [ops EXCEPT ![s] = Append(@, op)]
            /\ held' = [held EXCEPT ![s] = Append(@, Held(req.params, req.params))]
            /\ UNCHANGED thrown
       ELSE /\ thrown' = [thrown EXCEPT ![s] = Append(@, ThrownRec("append", req, op.error))]
            /\ UNCHANGED <<ops, held>>
    /\ UNCHANGED <<cfg, menu, finaleComplete, finaleCalls, closing, pools, poolEnds,
                   ctx, conns, committed, calls, cbs, curtains>>

\* the value the caller writes over an element or a property
Changed == Num(99)

\* the container after the caller wrote over each of its values
Overwritten(v) ==
    IF v.k = "arr"
    THEN Arr([j \in 1..Len(v.a) |->
                CASE v.a[j].k = "arr" -> Arr([m \in 1..Len(v.a[j].a) |-> Changed])
                  [] v.a[j].k = "obj" -> Obj([nm \in DOMAIN v.a[j].o |-> Changed])
                  [] OTHER -> Changed])
    ELSE Obj([nm \in DOMAIN v.o |-> Changed])

\* the container after the caller removed its elements or its properties
Emptied(v) == IF v.k = "arr" THEN Arr(<<>>) ELSE Obj([nm \in {} |-> Changed])

\* what the caller can make of a container it holds
Mutations(v) == {Overwritten(v), Emptied(v)}

\* op.paramVals being the container the caller passed
paramValsShared(own, callers) == callers

\* op.paramVals once the caller has changed the container it passed:
\* doAction stored a copy (line 79), an object the caller has no reference to
paramValsKept(own, callers) == own

\* the caller of a stage method changes the array or object it passed as
\* the parameters of operation k (1-based), at any time after the call
CallerMutates(s, k) ==
    /\ cfg[s] # NoStage
    /\ k \in 1..Len(held[s])
    /\ k <= Len(ops[s])
    /\ held[s][k].at = -1
    /\ held[s][k].given.k \in {"arr", "obj"}
    /\ \E v \in Mutations(held[s][k].given) :
         /\ v # held[s][k].given
         /\ held' = [held EXCEPT ![s][k].now = v, ![s][k].at = Len(calls[s])]
         /\ ops' = [ops EXCEPT ![s][k].paramVals = paramValsKept(@, v)]
    /\ UNCHANGED <<cfg, menu, finaleComplete, finaleCalls, closing, pools, poolEnds,
                   ctx, conns, committed, calls, cbs, thrown, curtains>>

\* RejectReason without the check of ops.finaleComplete
RejectReasonNoSeal(s) ==
    CASE closing -> "closing"
      [] cfg[s].kind = "null" -> "nocfg"
      [] OTHER -> ""

\* RejectReason without the check of the closing flag
RejectReasonNoClosing(s) ==
    CASE cfg[s].kind = "null" -> "nocfg"
      [] finaleComplete[s] -> "sealed"
      [] OTHER -> ""

\* doFinale, lines 228-232: the error finale calls back with at once, or ""
RejectReason(s) ==
    CASE closing -> "closing"
      [] cfg[s].kind = "null" -> "nocfg"
      [] finaleComplete[s] -> "sealed"
      [] OTHER -> ""

\* Transactional with the flag ignored: always a transaction
TransactionalAlways(autocommit) == TRUE

\* DbStage.finale, line 73: bTransact is !autocommit
Transactional(autocommit) == ~autocommit

\* getPool never finding a pool in the registry
IsCachedNever(key) == FALSE

\* getPool, lines 180-181: the registry holds a pool for the key
IsCached(key) == \E j \in 1..Len(pools) : pools[j] = key

\* getPool without its try/catch: an error thrown by createPool leaves
\* finale and no callback is scheduled
getPoolNoCatch(c0, key, createThrows) ==
    IF createThrows
    THEN [c |-> [c0 EXCEPT !.pc = "thrown"], escaped |-> "pool"]
    ELSE [c |-> [c0 EXCEPT !.pool = key], escaped |-> ""]

\* getPool, lines 175-189: the pool is handed to the callback on the next
\* tick; an error thrown by createPool is caught and handed to it instead,
\* so none escapes to the caller of finale
getPool(c0, key, createThrows) ==
    IF createThrows
    THEN [c |-> [c0 EXCEPT !.poolErr = "pool"], escaped |-> ""]
    ELSE [c |-> [c0 EXCEPT !.pool = key], escaped |-> ""]

\* (nops is ops.length as line 235 reads it when finale is called)
\* DbStage.finale / doFinale up to the call of getPool, which looks the
\* pool up, or creates and caches it, before it returns
Finale(s, autocommit) ==
    /\ cfg[s] # NoStage
    /\ finaleCalls[s] < menu[s].finales
    /\ finaleCalls' = [finaleCalls EXCEPT ![s] = @ + 1]
    /\ IF RejectReason(s) # ""
       THEN /\ cbs' = [cbs EXCEPT ![s] =
                          Append(@, CbRec(finaleCalls[s] + 1, RejectReason(s), Undef))]
            /\ UNCHANGED <<finaleComplete, pools, ctx, calls, thrown>>
       ELSE /\ finaleComplete' = [finaleComplete EXCEPT ![s] = TRUE]
            /\ \E createThrows \in BOOLEAN :
                 LET key == PoolKey(cfg[s])
                     cached == IsCached(key)
                     c0 == [Ctx0 EXCEPT !.pc = "poolTick",
                                        !.bTransact = Transactional(autocommit),
                                        !.autocommit = autocommit,
                                        !.singularOperation = (Len(ops[s]) = 1),
                                        !.nops = Len(ops[s]),
                                        !.call = finaleCalls[s] + 1]
                     got == getPool(c0, key, createThrows)
                 IN  /\ cached => ~createThrows
                     /\ pools' = IF cached \/ createThrows THEN pools ELSE Append(pools, key)
                     /\ ctx' = [ctx EXCEPT ![s] = got.c]
                     /\ thrown' = [thrown EXCEPT ![s] =
                                      IF got.escaped = "" THEN @
                                      ELSE Append(@, ThrownRec("finale", autocommit, got.escaped))]
                     /\ calls' = [calls EXCEPT ![s] =
                                     IF cached THEN @
                                     ELSE Append(@, [CallRec("createPool", NoConn, -1, -1, "", <<>>)
                                                       EXCEPT !.res = IF createThrows THEN Err("pool") ELSE Ok])]
            /\ UNCHANGED cbs
    /\ UNCHANGED <<held, cfg, menu, ops, closing, poolEnds, conns, committed, curtains>>

\* the callback of getPool, lines 242-244
PoolCallback(s) ==
    /\ ctx[s].pc = "poolTick"
    /\ Store(IF ctx[s].poolErr # ""
             THEN finalize(World, s, NoConn, ctx[s].poolErr)
             ELSE Goto(Issue(World, s, CallRec("getConn", NoConn, -1, -1, "", <<>>)),
                       s, "getConn"))
    /\ UNCHANGED <<held, cfg, menu, ops, finaleComplete, finaleCalls, closing, pools,
                   poolEnds, cbs, thrown, curtains>>

\* the callback of getConnection going on without SET autocommit, in the
\* commit mode the connection was left in
afterGetConnectionNoSet(w, s, cn) ==
    afterSetCommit([w EXCEPT !.conns[cn].owner = s, !.ctx[s].conn = cn], s, "")

\* doFinale, lines 244-248: the callback of getConnection given a
\* connection executes the SET autocommit operation on it
afterGetConnection(w, s, cn) ==
    doNextExec([w EXCEPT !.conns[cn].owner = s, !.ctx[s].conn = cn,
                         !.ctx[s].cur = "setac", !.ctx[s].i = 0,
                         !.ctx[s].total = 0], s)

\* the callback of getConnection, lines 244-248: an error, or a free
\* connection of a pool that was not closed
ConnCallback(s) ==
    /\ ctx[s].pc = "getConn"
    /\ \/ Store(finalize(Complete(World, s, Err("conn")), s, NoConn, "conn"))
       \/ \E cn \in ConnIds :
            /\ cn[1] = ctx[s].pool
            /\ conns[cn].owner = ""
            /\ poolEnds[cn[1]] = 0
            /\ Store(afterGetConnection(Complete(World, s, Ok), s, cn))
    /\ UNCHANGED <<held, cfg, menu, ops, finaleComplete, finaleCalls, closing, pools,
                   poolEnds, cbs, thrown, curtains>>

LastCall(s) == calls[s][Len(calls[s])]

\* the callback of conn.execute
ExecCallback(s) ==
    /\ ctx[s].pc = "exec"
    /\ \E res \in ExecOutcomes(LastCall(s).kind, menu[s].rowSets) :
         Store(onExecResult(
                 Complete(IF res.k = "err" THEN World
                          ELSE serverExecute(World, ctx[s].conn, LastCall(s).kind,
                                             Token(s, LastCall(s).k, LastCall(s).i)),
                          s, res),
                 s, res))
    /\ UNCHANGED <<held, cfg, menu, ops, finaleComplete, finaleCalls, closing, pools,
                   poolEnds, cbs, thrown, curtains>>

\* the callback of conn.beginTransaction, lines 252-255
BeginCallback(s) ==
    /\ ctx[s].pc = "begin"
    /\ \/ Store(finalize(Complete(World, s, Err("begin")), s, ctx[s].conn, "begin"))
       \/ Store(fillInResults(
                  [Complete(World, s, Ok) EXCEPT
                      !.ctx[s].transactionHasStarted = TRUE], s))
    /\ UNCHANGED <<held, cfg, menu, ops, finaleComplete, finaleCalls, closing, pools,
                   poolEnds, cbs, thrown, curtains>>

\* the callback of conn.commit, lines 257-259
CommitCallback(s) ==
    /\ ctx[s].pc = "commit"
    /\ \/ Store(finalize(Complete(World, s, Err("commit")), s, ctx[s].conn, "commit"))
       \/ Store(finalize(Complete(serverCommit(World, ctx[s].conn), s, Ok),
                         s, ctx[s].conn, ""))
    /\ UNCHANGED <<held, cfg, menu, ops, finaleComplete, finaleCalls, closing, pools,
                   poolEnds, cbs, thrown, curtains>>

\* the callback of conn.rollback, lines 296-300: its error is not looked at
RollbackCallback(s) ==
    /\ ctx[s].pc = "rollback"
    /\ \/ Store(afterRollback(Complete(World, s, Err("rollback")), s, "rollback"))
       \/ Store(afterRollback(Complete(serverRollback(World, ctx[s].conn), s, Ok),
                               s, ""))
    /\ UNCHANGED <<held, cfg, menu, ops, finaleComplete, finaleCalls, closing, pools,
                   poolEnds, cbs, thrown, curtains>>

\* process.nextTick(cb, err, rv), lines 298, 303, 307
Callback(s) ==
    /\ ctx[s].pc = "cb"
    /\ cbs' = [cbs EXCEPT ![s] = Append(@, CbRec(ctx[s].call, ctx[s].err, ctx[s].rv))]
    /\ ctx' = [ctx EXCEPT ![s].pc = "done"]
    /\ UNCHANGED <<held, cfg, menu, ops, finaleComplete, finaleCalls, closing, pools,
                   poolEnds, conns, committed, calls, thrown, curtains>>

\* closeNextPool calling back as soon as one pool has finished closing
closeNextPoolFirstOnly(cu) ==
    IF Len(cu.poolsToClose) = 0 \/ cu.closed # {}
    THEN [cu EXCEPT !.ending = "", !.callbacks = @ + 1]
    ELSE [cu EXCEPT !.ending = cu.poolsToClose[Len(cu.poolsToClose)],
                    !.poolsToClose = SubSeq(@, 1, Len(@) - 1)]

\* closeNextPool: the callback when no pool is left, else pool.end on the
\* last pool of the list
closeNextPool(cu) ==
    IF Len(cu.poolsToClose) = 0
    THEN [cu EXCEPT !.ending = "", !.callbacks = @ + 1]
    ELSE [cu EXCEPT !.ending = cu.poolsToClose[Len(cu.poolsToClose)],
                    !.poolsToClose = SubSeq(@, 1, Len(@) - 1)]

EndIssued(cu, ends) ==
    IF cu.ending = "" THEN ends ELSE [ends EXCEPT ![cu.ending] = @ + 1]

\* curtains / doCurtains, called at most n times
CurtainsUpTo(n) ==
    /\ Len(curtains) < n
    /\ closing' = TRUE
    /\ LET cu == closeNextPool([poolsToClose |-> pools, ending |-> "", callbacks |-> 0,
                                cached |-> pools, closed |-> {}])
       IN  /\ curtains' = Append(curtains, cu)
           /\ poolEnds' = EndIssued(cu, poolEnds)
    /\ UNCHANGED <<held, cfg, menu, ops, finaleComplete, finaleCalls, pools, ctx, conns,
                   committed, calls, cbs, thrown>>

\* the callback of pool.end, line 203
PoolEndCallback(j) ==
    /\ curtains[j].ending # ""
    /\ LET cu == closeNextPool([curtains[j] EXCEPT !.closed = @ \cup {curtains[j].ending}])
       IN  /\ curtains' = [curtains EXCEPT ![j] = cu]
           /\ poolEnds' = EndIssued(cu, poolEnds)
    /\ UNCHANGED <<held, cfg, menu, ops, finaleComplete, finaleCalls, closing, pools, ctx,
                   conns, committed, calls, cbs, thrown>>

Curtains == CurtainsUpTo(MaxCurtains)

Next ==
    \/ \E s \in Stages : \E req \in menu[s].reqs : StageAppend(s, req)
    \/ \E s \in Stages : \E autocommit \in BOOLEAN : Finale(s, autocommit)
    \/ \E s \in Stages : PoolCallback(s)
    \/ \E s \in Stages : ConnCallback(s)
    \/ \E s \in Stages : ExecCallback(s)
    \/ \E s \in Stages : BeginCallback(s)
    \/ \E s \in Stages : CommitCallback(s)
    \/ \E s \in Stages : RollbackCallback(s)
    \/ \E s \in Stages : Callback(s)
    \/ Curtains
    \/ \E j \in 1..Len(curtains) : PoolEndCallback(j)

Spec == Init /\ [][Next]_vars

\* two stages on two configurations, each finalized at most
\* ShutdownFinaleCalls times, the first given counts, the second nothing
InitShutdown ==
    /\ cfg = [s \in Stages |-> IF s = "s1" THEN CfgA ELSE CfgB]
    /\ menu = [s \in Stages |->
                 IF s = "s1" THEN Menu({ReqCount}, MaxOps, ShutdownFinaleCalls, RowSets)
                 ELSE Menu({}, 0, ShutdownFinaleCalls, {})]
    /\ InitRest

SpecShutdown == InitShutdown /\ [][Next]_vars

\* one stage, given one call of execute with any statement and any
\* container of ConstructCatalog
InitConstruct ==
    /\ cfg = [s \in Stages |-> IF s = "s1" THEN CfgA ELSE NoStage]
    /\ menu = [s \in Stages |->
                 IF s = "s1"
                 THEN Menu(ConstructCatalog, ConstructAppends, ConstructFinaleCalls, RowSets)
                 ELSE Menu({}, 0, 0, {})]
    /\ InitRest

SpecConstruct == InitConstruct /\ [][Next]_vars

\* one stage of scalar queries, answered with the row sets of CoerceRowSets
InitCoerce ==
    /\ cfg = [s \in Stages |-> IF s = "s1" THEN CfgA ELSE NoStage]
    /\ menu = [s \in Stages |->
                 IF s = "s1"
                 THEN Menu(ScalarCatalog, MaxOps, ConstructFinaleCalls, CoerceRowSets)
                 ELSE Menu({}, 0, 0, {})]
    /\ InitRest

SpecCoerce == InitCoerce /\ [][Next]_vars

\* one stage, given the calls of RefCatalog
InitRefs ==
    /\ cfg = [s \in Stages |-> IF s = "s1" THEN CfgA ELSE NoStage]
    /\ menu = [s \in Stages |->
                 IF s = "s1"
                 THEN Menu(RefCatalog, MaxOps, ConstructFinaleCalls, RowSets)
                 ELSE Menu({}, 0, 0, {})]
    /\ InitRest

SpecRefs == InitRefs /\ [][Next]_vars

\* one stage, given the queries of QueryCatalog
InitQueries ==
    /\ cfg = [s \in Stages |-> IF s = "s1" THEN CfgA ELSE NoStage]
    /\ menu = [s \in Stages |->
                 IF s = "s1"
                 THEN Menu(QueryCatalog, MaxOps, ConstructFinaleCalls, RowSets)
                 ELSE Menu({}, 0, 0, {})]
    /\ InitRest

SpecQueries == InitQueries /\ [][Next]_vars

\* two stages on two configurations, the first given one count, and
\* curtains called up to RepeatCurtains times
InitReshut ==
    /\ cfg = [s \in Stages |-> IF s = "s1" THEN CfgA ELSE CfgB]
    /\ menu = [s \in Stages |->
                 IF s = "s1"
                 THEN Menu({ReqCount}, ConstructAppends, ShutdownFinaleCalls, RowSets)
                 ELSE Menu({}, 0, ShutdownFinaleCalls, {})]
    /\ InitRest

NextReshut ==
    \/ \E s \in Stages : \E req \in menu[s].reqs : StageAppend(s, req)
    \/ \E s \in Stages : \E autocommit \in BOOLEAN : Finale(s, autocommit)
    \/ \E s \in Stages : PoolCallback(s)
    \/ \E s \in Stages : ConnCallback(s)
    \/ \E s \in Stages : ExecCallback(s)
    \/ \E s \in Stages : BeginCallback(s)
    \/ \E s \in Stages : CommitCallback(s)
    \/ \E s \in Stages : RollbackCallback(s)
    \/ \E s \in Stages : Callback(s)
    \/ CurtainsUpTo(RepeatCurtains)
    \/ \E j \in 1..Len(curtains) : PoolEndCallback(j)

SpecReshut == InitReshut /\ [][NextReshut]_vars

\* two stages on the same configuration, each given counts that refer to
\* the count before; the server answers the counts of the first with 7 and
\* those of the second with 9
InitConcurrent ==
    /\ cfg = [s \in Stages |-> CfgA]
    /\ menu = [s \in Stages |->
                 Menu({ReqCountRef}, MaxOps, ConstructFinaleCalls,
                      {OneCell(Num(IF s = "s1" THEN 7 ELSE 9))})]
    /\ InitRest

\* the stages at work, curtains not called
NextConcurrent ==
    \/ \E s \in Stages : \E req \in menu[s].reqs : StageAppend(s, req)
    \/ \E s \in Stages : \E autocommit \in BOOLEAN : Finale(s, autocommit)
    \/ \E s \in Stages : PoolCallback(s)
    \/ \E s \in Stages : ConnCallback(s)
    \/ \E s \in Stages : ExecCallback(s)
    \/ \E s \in Stages : BeginCallback(s)
    \/ \E s \in Stages : CommitCallback(s)
    \/ \E s \in Stages : RollbackCallback(s)
    \/ \E s \in Stages : Callback(s)

SpecConcurrent == InitConcurrent /\ [][NextConcurrent]_vars

\* execute and query given an array of arrays and an object
MutateCatalog == {ReqInsertMany, ReqQuery}

\* one stage, given one call of MutateCatalog by a caller that goes on to
\* change the container it passed
InitMutate ==
    /\ cfg = [s \in Stages |-> IF s = "s1" THEN CfgA ELSE NoStage]
    /\ menu = [s \in Stages |->
                 IF s = "s1"
                 THEN Menu(MutateCatalog, ConstructAppends, ConstructFinaleCalls, RowSets)
                 ELSE Menu({}, 0, 0, {})]
    /\ InitRest

NextMutate ==
    \/ \E s \in Stages : \E req \in menu[s].reqs : StageAppend(s, req)
    \/ \E s \in Stages : \E k \in 1..Len(held[s]) : CallerMutates(s, k)
    \/ \E s \in Stages : \E autocommit \in BOOLEAN : Finale(s, autocommit)
    \/ \E s \in Stages : PoolCallback(s)
    \/ \E s \in Stages : ConnCallback(s)
    \/ \E s \in Stages : ExecCallback(s)
    \/ \E s \in Stages : BeginCallback(s)
    \/ \E s \in Stages : CommitCallback(s)
    \/ \E s \in Stages : RollbackCallback(s)
    \/ \E s \in Stages : Callback(s)

SpecMutate == InitMutate /\ [][NextMutate]_vars

\* two stages created with the same configuration, the first given a count
InitPools ==
    /\ cfg = [s \in Stages |-> CfgA]
    /\ menu = [s \in Stages |->
                 IF s = "s1"
                 THEN Menu({ReqCount}, ConstructAppends, ShutdownFinaleCalls, RowSets)
                 ELSE Menu({}, 0, ShutdownFinaleCalls, {})]
    /\ InitRest

SpecPools == InitPools /\ [][Next]_vars

\* every driver call completes and every callback scheduled with
\* process.nextTick runs; what the callers do (appending, finale, curtains)
\* is up to them
DriverCompletes ==
    /\ \A s \in Stages :
          /\ WF_vars(PoolCallback(s))
          /\ WF_vars(ConnCallback(s))
          /\ WF_vars(ExecCallback(s))
          /\ WF_vars(BeginCallback(s))
          /\ WF_vars(CommitCallback(s))
          /\ WF_vars(RollbackCallback(s))
          /\ WF_vars(Callback(s))
    /\ \A j \in 1..MaxCurtains : WF_vars(j <= Len(curtains) /\ PoolEndCallback(j))

SpecLive == Init /\ [][Next]_vars /\ DriverCompletes

\* ------------------------------------------------------------------ 0.0.2

\* 0.0.2, isArrayOfObjectsOrArrayOfArrays: a non-empty array whose first
\* element is an array or an object
isArrayOfObjectsOrArrayOfArrays(params) ==
    /\ params.k = "arr"
    /\ Len(params.a) > 0
    /\ params.a[1].k \in {"arr", "obj"}

\* 0.0.2, createOp: the statement is parsed, the parameters are kept as
\* they were passed and nothing is checked; isMulti is what doExecute and
\* doQuery compute from paramVals when they run the operation
createOp(opcode, sql, params, dflt) ==
    LET parse == parseSql(sql) IN
    [ error |-> "",
      opcode |-> opcode,
      dflt |-> dflt,
      rawSql |-> parse.rawSql,
      sql |-> parse.sql,
      paramRefs |-> parse.paramRefs,
      paramTypes |-> parse.paramTypes,
      paramVals |-> params,
      isMulti |-> isArrayOfObjectsOrArrayOfArrays(params) ]

\* the actions act and transact are given, made with execute and query:
\* those 0.0.2 runs as the stage interface does
ActCatalog == {ReqInsertMany, ReqCreate, ReqQuery}

ActionOf(req) == createOp(req.opcode, req.sql, req.params, req.dflt)

\* one action passed by itself
Single(op) == [k |-> "op", op |-> op]

\* what act and transact are passed as operations: nothing, one action, or
\* an array of up to MaxActions actions
ActArguments ==
    {Undef}
    \cup {Single(ActionOf(req)) : req \in ActCatalog}
    \cup UNION {{Arr(a) : a \in [1..n -> {ActionOf(req) : req \in ActCatalog}]} :
                  n \in 0..MaxActions}

\* singularOperation decided by the number of actions, as doFinale does
singularOperationByLength(operations) ==
    operations.k # "arr" \/ Len(operations.a) = 1

\* 0.0.2, doAct, line 89: singularOperation = !Array.isArray(ops)
singularOperation(operations) == operations.k # "arr"

\* 0.0.2, doAct, line 90: the list doAct runs
ActionList(operations) ==
    IF operations.k = "arr" THEN operations.a ELSE <<operations.op>>

\* 0.0.2, act / transact / doAct up to the call of getPool: the callback is
\* called at once when the library is closing, a missing configuration or
\* list is thrown to the caller
Act(s, bTransact, operations) ==
    /\ cfg[s] # NoStage
    /\ finaleCalls[s] < menu[s].finales
    /\ ctx[s].pc = "idle"
    /\ finaleCalls' = [finaleCalls EXCEPT ![s] = @ + 1]
    /\ IF closing
       THEN /\ cbs' = [cbs EXCEPT ![s] =
                          Append(@, CbRec(finaleCalls[s] + 1, "closing", Undef))]
            /\ UNCHANGED <<ops, pools, ctx, calls, thrown>>
       ELSE IF cfg[s].kind = "null" \/ operations.k = "undef"
       THEN /\ thrown' = [thrown EXCEPT ![s] =
                             Append(@, ThrownRec("act", operations, "usage"))]
            /\ UNCHANGED <<ops, pools, ctx, calls, cbs>>
       ELSE /\ ops' = [ops EXCEPT ![s] = ActionList(operations)]
            /\ \E createThrows \in BOOLEAN :
                 LET key == PoolKey(cfg[s])
                     cached == IsCached(key)
                     c0 == [Ctx0 EXCEPT !.pc = "poolTick",
                                        !.bTransact = bTransact,
                                        !.autocommit = ~bTransact,
                                        !.singularOperation = singularOperation(operations),
                                        !.nops = Len(ActionList(operations)),
                                        !.operations = operations,
                                        !.call = finaleCalls[s] + 1]
                     got == getPool(c0, key, createThrows)
                 IN  /\ cached => ~createThrows
                     /\ pools' = IF cached \/ createThrows THEN pools ELSE Append(pools, key)
                     /\ ctx' = [ctx EXCEPT ![s] = got.c]
                     /\ thrown' = [thrown EXCEPT ![s] =
                                      IF got.escaped = "" THEN @
                                      ELSE Append(@, ThrownRec("act", operations, got.escaped))]
                     /\ calls' = [calls EXCEPT ![s] =
                                     IF cached THEN @
                                     ELSE Append(@, [CallRec("createPool", NoConn, -1, -1, "", <<>>)
                                                       EXCEPT !.res = IF createThrows THEN Err("pool") ELSE Ok])]
            /\ UNCHANGED cbs
    /\ UNCHANGED <<held, cfg, menu, finaleComplete, closing, poolEnds, conns, committed, curtains>>

\* calls of act or transact with a configuration, and calls without; s names
\* the run of doAct a call starts, and the calls made before it that started
\* none
InitAct ==
    /\ cfg = [s \in Stages |-> IF s = "s1" THEN CfgA ELSE CfgNull]
    /\ menu = [s \in Stages |-> Menu({}, 0, ActCalls, RowSets)]
    /\ InitRest

NextAct ==
    \/ \E s \in Stages : \E bTransact \in BOOLEAN :
         \E operations \in ActArguments : Act(s, bTransact, operations)
    \/ \E s \in Stages : PoolCallback(s)
    \/ \E s \in Stages : ConnCallback(s)
    \/ \E s \in Stages : ExecCallback(s)
    \/ \E s \in Stages : BeginCallback(s)
    \/ \E s \in Stages : CommitCallback(s)
    \/ \E s \in Stages : RollbackCallback(s)
    \/ \E s \in Stages : Callback(s)
    \/ Curtains
    \/ \E j \in 1..Len(curtains) : PoolEndCallback(j)

SpecAct == InitAct /\ [][NextAct]_vars


\* ------------------------------------------------------------------ observations

\* the finalization of s has handed its error and result to the callback
Finished(s) == ctx[s].pc \in {"cb", "done"}

Succeeded(rec) == rec.res.k \notin {"err", "pending"}
Failed(rec) == rec.res.k = "err"

\* the positions in the log of the statements of s's operations
OpCalls(s) ==
    {j \in 1..Len(calls[s]) : calls[s][j].call = "exec" /\ calls[s][j].k >= 0}

\* the positions in the log of the calls of a kind
CallsOf(s, call) == {j \in 1..Len(calls[s]) : calls[s][j].call = call}

\* a statement of an operation of s failed
OpFailed(s) == \E j \in OpCalls(s) : Failed(calls[s][j])

\* the effects of the statements s executed up to its last statement that
\* forced an implicit commit
UpToLastImplicitCommit(s) ==
    {Token(s, calls[s][j].k, calls[s][j].i) :
        j \in {x \in OpCalls(s) :
                 /\ Succeeded(calls[s][x])
                 /\ calls[s][x].kind \in {"dml", "ddl"}
                 /\ \E d \in OpCalls(s) :
                      /\ x <= d
                      /\ calls[s][d].kind = "ddl"
                      /\ Succeeded(calls[s][d])}}

\* the effects of the statements of s that succeeded
EffectsOf(s) ==
    {Token(s, calls[s][j].k, calls[s][j].i) :
        j \in {x \in OpCalls(s) :
                 Succeeded(calls[s][x]) /\ calls[s][x].kind \in {"dml", "ddl"}}}

\* the statements of operation k (0-based) of s, in the order they were sent
OpExecs(s, k) ==
    SelectSeq(calls[s], LAMBDA r : r.call = "exec" /\ r.k = k)

\* the result of operation k of s, from what the driver answered to its
\* statements: the affected rows added up for an execute, the formatted
\* row sets for a query
Produced(s, k) ==
    LET op == ops[s][k + 1]
        ex == OpExecs(s, k)
    IN  IF op.opcode = "e"
        THEN Num(SeqSum([j \in 1..Len(ex) |-> RowsAffected(ex[j].res)]))
        ELSE IF op.isMulti
        THEN Arr([j \in 1..Len(ex) |-> formatResult(op, ex[j].res)])
        ELSE formatResult(op, ex[1].res)

\* the error finalize was called with after the transaction started: that
\* of the operation that failed, else that of the commit
TriggerErr(s) ==
    IF OpFailed(s) THEN "op"
    ELSE IF \E j \in CallsOf(s, "commit") : Failed(calls[s][j]) THEN "commit"
    ELSE ""

\* the invocations of the callback that answer the finalization of s
Delivered(s) ==
    {j \in 1..Len(cbs[s]) : ctx[s].pc = "done" /\ cbs[s][j].call = ctx[s].call}

\* a call of finale on s is made in this step
FinaleCalled(s) == finaleCalls'[s] = finaleCalls[s] + 1

\* the call of finale made in this step was answered at once with an error
\* and did nothing else
RejectedAtOnce(s) ==
    /\ Len(cbs'[s]) = Len(cbs[s]) + 1
    /\ cbs'[s][Len(cbs'[s])].err # ""
    /\ cbs'[s][Len(cbs'[s])].call = finaleCalls'[s]
    /\ UNCHANGED <<finaleComplete, pools, poolEnds, ctx, conns, committed, calls, thrown>>

\* the kind of a parameter container as the caller passes it, an array's
\* kind decided by its first element
ContainerClass(v) ==
    CASE v.k \in {"undef", "null"} -> "absent"
      [] v.k = "obj" -> "object"
      [] v.k # "arr" -> "scalar"
      [] Len(v.a) = 0 -> "flat array"
      [] v.a[1].k = "arr" -> "array-of-arrays"
      [] v.a[1].k = "obj" -> "array-of-objects"
      [] OTHER -> "flat array"

\* the statement has a placeholder of style t
UsesStyle(sql, t) == \E j \in 1..Len(sql.toks) : sql.toks[j].t = t

\* the operation is what execute(req) appends: the statement as given and
\* the copy of the container made at line 79
ComesFrom(op, req) ==
    /\ op.opcode = req.opcode
    /\ op.rawSql = req.sql
    /\ op.paramVals = JsonClone(req.params)

\* the call of a stage method made in this step threw, and changed nothing
\* but the log of what was thrown
ThrewOnly(s) ==
    /\ Len(thrown'[s]) = Len(thrown[s]) + 1
    /\ UNCHANGED <<ops, finaleComplete, finaleCalls, closing, pools, poolEnds, ctx,
                   conns, committed, calls, cbs, curtains, held>>

\* the container's style does not fit the placeholders of the statement
ShapeMismatch(req) ==
    \/ /\ UsesStyle(req.sql, "?")
       /\ ContainerClass(req.params) \notin {"flat array", "array-of-arrays"}
    \/ /\ UsesStyle(req.sql, ":")
       /\ ContainerClass(req.params) \notin {"object", "array-of-objects"}

\* the errors thrown by execute, query, ... on stage s
AppendThrows(s) ==
    {j \in 1..Len(thrown[s]) : thrown[s][j].by = "append"}

\* the container as the caller passes it holds a null or an undefined leaf:
\* an element of a flat array, a property of a flat object, an element of an
\* inner array, a property of an element that is an object
NullLeaf(v) ==
    CASE v.k = "arr" ->
            \E j \in 1..Len(v.a) :
                \/ IsNullish(v.a[j])
                \/ /\ v.a[j].k = "arr"
                   /\ \E m \in 1..Len(v.a[j].a) : IsNullish(v.a[j].a[m])
                \/ /\ v.a[j].k = "obj"
                   /\ \E nm \in DOMAIN v.a[j].o : IsNullish(v.a[j].o[nm])
      [] v.k = "obj" -> \E nm \in DOMAIN v.o : IsNullish(v.o[nm])
      [] OTHER -> FALSE

\* the statement has both a :name and a ?
MixedStyles(sql) == UsesStyle(sql, ":") /\ UsesStyle(sql, "?")

\* the first column of the first row of what the driver answered, or
\* [k |-> "none"] when there is no result set, no row or no column
FirstValue(rs) ==
    IF rs.k = "arr" /\ Len(rs.a) > 0 /\ rs.a[1].k = "row" /\ Len(rs.a[1].cols) > 0
    THEN rs.a[1].cols[1].val
    ELSE [k |-> "none"]

\* the texts among the answers that begin with a number
NumericTexts == {"7", "7up", "42.5"}

\* the operations of s that produced their result: 0-based positions
Completed(s) == 0..(Len(ctx[s].results) - 1)

\* the driver calls of s that go forward (all but rollback and release)
\* and failed: positions in the log
ForwardFailures(s) ==
    {j \in 1..Len(calls[s]) :
        /\ calls[s][j].call \in {"createPool", "getConn", "exec", "begin", "commit"}
        /\ Failed(calls[s][j])}

\* the error finalize is called with when the driver call rec fails
ErrOfCall(rec) ==
    CASE rec.call = "createPool" -> "pool"
      [] rec.call = "getConn" -> "conn"
      [] rec.call = "exec" -> IF rec.k < 0 THEN "setac" ELSE "op"
      [] OTHER -> rec.call

\* the driver calls s made on a connection: positions in the log
ConnCalls(s) == {j \in 1..Len(calls[s]) : calls[s][j].conn # NoConn}

\* the elements of a sequence
Range(seq) == {seq[j] : j \in 1..Len(seq)}

\* the place of a driver call in the order of the steps of a finalization
StepRank(rec) ==
    CASE rec.call = "createPool" -> 0
      [] rec.call = "getConn" -> 1
      [] rec.call = "exec" -> IF rec.k < 0 THEN 2 ELSE 4
      [] rec.call = "begin" -> 3
      [] rec.call = "commit" -> 5
      [] rec.call = "rollback" -> 6
      [] OTHER -> 7

\* a step before the operations failed: pool creation, connection
\* acquisition, SET autocommit or begin
EarlyFailure(s) ==
    \E j \in ForwardFailures(s) :
        calls[s][j].call \in {"createPool", "getConn", "begin"}
            \/ (calls[s][j].call = "exec" /\ calls[s][j].k < 0)

\* the invocations of the callback given to the n-th call of finale on s
AnswersTo(s, n) == {j \in 1..Len(cbs[s]) : cbs[s][j].call = n}

\* how many "?" placeholders come before the m-th placeholder of a statement
QuestionMarksBefore(paramTypes, m) ==
    Cardinality({x \in 1..(m - 1) : paramTypes[x] = "?"})

\* element i (0-based) of a positional parameter row, undefined past its end
ElementAt(row, i) ==
    IF row.k = "arr" /\ i < Len(row.a) THEN row.a[i + 1] ELSE Undef

\* the finalization of s has passed the checks of doFinale and has not yet
\* invoked its callback
InFlight(s) == ctx[s].pc \notin {"idle", "done", "crashed"}

\* the calls of createPool that returned a pool for a key: which
\* finalization made them and where in its log
PoolsCreated(key) ==
    {x \in Stages \X (1..(2 * MaxOps * MaxRows + 8)) :
        /\ x[2] <= Len(calls[x[1]])
        /\ calls[x[1]][x[2]].call = "createPool"
        /\ Succeeded(calls[x[1]][x[2]])
        /\ PoolKey(cfg[x[1]]) = key}

\* the operation of s whose statement failed (0-based), 0 when the
\* finalization failed before its first operation
FailedAt(s) ==
    IF OpFailed(s)
    THEN calls[s][CHOOSE j \in OpCalls(s) : Failed(calls[s][j])].k
    ELSE 0

\* ------------------------------------------------------------------ claims

\* C1 as stated: in transactional mode, when an operation of the batch has
\* failed, no effect of any statement of the finalization is committed
\* after the finalization.
C1_NothingPersists ==
    \A s \in Stages :
        (Finished(s) /\ ~ctx[s].autocommit /\ OpFailed(s)) => TokensOf(s) = {}

\* C1 amended: in transactional mode, when an operation of the batch has
\* failed, the only effects of the finalization that are committed after it
\* are those of the statements up to its last statement that forced an
\* implicit commit; none when it executed no such statement.
C1_RolledBackToImplicitCommit ==
    \A s \in Stages :
        (Finished(s) /\ ~ctx[s].autocommit /\ OpFailed(s))
            => TokensOf(s) \subseteq UpToLastImplicitCommit(s)

\* a transactional finalization ended after the second row of a multi-row
\* operation failed, its first row having succeeded, and nothing of it is
\* committed
C1_Witness ==
    \E s \in Stages :
        /\ Finished(s) /\ ~ctx[s].autocommit /\ TokensOf(s) = {}
        /\ \E j \in OpCalls(s) :
             /\ j + 1 \in OpCalls(s)
             /\ calls[s][j].kind = "dml" /\ Succeeded(calls[s][j])
             /\ calls[s][j + 1].k = calls[s][j].k /\ Failed(calls[s][j + 1])

\* C2: in autocommit mode, when an operation has failed, the effects of all
\* the statements that succeeded before it are committed after the
\* finalization, and no rollback was issued.
C2_AutocommitKeepsEffects ==
    \A s \in Stages :
        (Finished(s) /\ ctx[s].autocommit /\ OpFailed(s))
            => /\ EffectsOf(s) \subseteq committed
               /\ CallsOf(s, "rollback") = {}

\* an autocommit finalization ended after a failure that followed a
\* row-changing statement that succeeded
C2_Witness ==
    \E s \in Stages :
        /\ Finished(s) /\ ctx[s].autocommit /\ OpFailed(s)
        /\ \E j \in OpCalls(s) :
             calls[s][j].kind = "dml" /\ Succeeded(calls[s][j])

C4_ResultShape ==
    \A s \in Stages :
        (ctx[s].pc = "cb" /\ ctx[s].err = "" /\ Len(ctx[s].results) = Len(ops[s]))
            => LET N == Len(ops[s]) IN
               /\ N = 1 => ctx[s].rv = Produced(s, 0)
               /\ N > 1 => ctx[s].rv = Arr([k \in 1..N |-> Produced(s, k - 1)])

\* C5: a call of finale on a stage whose finalization has begun, whether
\* it is in flight or over, calls back at once with an error and changes
\* neither the pools, nor a connection, nor the driver calls, nor the
\* finalization that began.
C5_RefinaleRejected ==
    [][\A s \in Stages : (FinaleCalled(s) /\ finaleComplete[s]) => RejectedAtOnce(s)]_vars

\* finale was called again while a statement of the first finalization was
\* in flight, and was answered with the error of a sealed stage
C5_Witness ==
    \E s \in Stages :
        /\ ctx[s].pc = "exec" /\ ctx[s].cur = "op"
        /\ \E j \in 1..Len(cbs[s]) : cbs[s][j].err = "sealed" /\ cbs[s][j].call = 2

\* C6: once curtains was called, every call of finale calls back at once
\* with an error and creates no pool, acquires no connection and issues no
\* statement, also before the callback of curtains has fired.
C6_FinaleAfterCurtainsRejected ==
    [][\A s \in Stages : (FinaleCalled(s) /\ Len(curtains) > 0) => RejectedAtOnce(s)]_vars

\* curtains was called with the pool of the first configuration open and
\* has not called back; finale on a stage that was never finalized, on a
\* configuration no pool exists for, was answered with the closing error,
\* and no pool was created
C6_Witness ==
    /\ Len(curtains) > 0 /\ curtains[1].callbacks = 0
    /\ finaleCalls["s2"] = 1 /\ ~finaleComplete["s2"]
    /\ cbs["s2"] = <<CbRec(1, "closing", Undef)>>
    /\ pools = <<"A">>

\* C7: in transactional mode commit is issued at most once; when it is
\* issued every operation the stage holds has produced its result and
\* every driver call before it succeeded; it is issued once the
\* transaction has begun and the operations are over without a failure; a
\* commit that fails gives its error to the callback.
C7_CommitOnSuccessOnly ==
    /\ [](\A s \in Stages :
            /\ Cardinality(CallsOf(s, "commit")) <= 1
            /\ \A j \in CallsOf(s, "commit") :
                 /\ ctx[s].bTransact
                 /\ \A x \in 1..(j - 1) : Succeeded(calls[s][x])
                 /\ \A x \in OpCalls(s) : x < j
                 /\ \A k \in 0..(Len(ctx[s].results) - 1) :
                      Len(OpExecs(s, k)) = Len(ParamRows(ops[s][k + 1]))
            /\ ( /\ ctx[s].transactionHasStarted
                 /\ ~OpFailed(s)
                 /\ ctx[s].pc \in {"commit", "rollback", "cb", "done"} )
                    => CallsOf(s, "commit") # {}
            /\ ( /\ Finished(s)
                 /\ \E j \in CallsOf(s, "commit") : Failed(calls[s][j]) )
                    => /\ ctx[s].err = "commit"
                       /\ \A d \in Delivered(s) : cbs[s][d].err = "commit")
    /\ [][\A s \in Stages :
            Cardinality(CallsOf(s, "commit"))' > Cardinality(CallsOf(s, "commit"))
                => Len(ctx'[s].results) = Len(ops[s])]_vars

\* a transactional finalization of two operations committed, the commit
\* failed, and the callback was given the commit's error
C7_Witness ==
    \E s \in Stages :
        /\ ctx[s].pc = "done" /\ Len(ctx[s].results) = 2
        /\ \E j \in CallsOf(s, "commit") : Failed(calls[s][j])
        /\ \E d \in Delivered(s) : cbs[s][d].err = "commit"

\* C8: when a finalization failed after its transaction started and the
\* rollback failed too, the callback is given the error that triggered the
\* rollback, not the rollback's, and the connection was released after the
\* rollback.
C8_RollbackErrorSwallowed ==
    \A s \in Stages :
        ( /\ Finished(s)
          /\ TriggerErr(s) # ""
          /\ \E j \in CallsOf(s, "rollback") : Failed(calls[s][j]) )
            => /\ ctx[s].err = TriggerErr(s)
               /\ \A d \in Delivered(s) : cbs[s][d].err = TriggerErr(s)
               /\ \E r \in CallsOf(s, "release") :
                    /\ calls[s][r].conn = ctx[s].conn
                    /\ \A j \in CallsOf(s, "rollback") : j < r
               /\ conns[ctx[s].conn].owner # s

\* the callback was given the error of an operation that failed inside a
\* transaction whose rollback failed
C8_Witness ==
    \E s \in Stages :
        /\ ctx[s].pc = "done" /\ OpFailed(s)
        /\ \E j \in CallsOf(s, "rollback") : Failed(calls[s][j])
        /\ \E d \in Delivered(s) : cbs[s][d].err = "op"
        /\ conns[ctx[s].conn].owner = ""

\* the value delivered for operation i of s: the element of the delivered
\* array, or the bare result of a stage finalized with one operation
DeliveredAt(s, i) ==
    IF ctx[s].singularOperation
    THEN IF i = 0 THEN ctx[s].rv ELSE Undef
    ELSE ctx[s].rv.a[i + 1]

C10_MultiRowExecuteSums ==
    \A s \in Stages : \A k \in 0..(Len(ctx[s].results) - 1) :
        LET op == ops[s][k + 1]
            ex == OpExecs(s, k)
        IN  (op.opcode = "e" /\ op.isMulti)
                => /\ Len(ex) = Len(op.paramVals.a)
                   /\ \A j \in 1..Len(ex) :
                        /\ ex[j].i = j - 1
                        /\ ex[j].args = op.paramVals.a[j].a
                        /\ ex[j].res.k = "ok"
                   /\ ctx[s].results[k + 1] =
                        Num(SeqSum([j \in 1..Len(ex) |-> ex[j].res.affectedRows]))

\* a multi-row execute of MaxRows rows whose executions reported 1 and then
\* 2 affected rows, with more in the last, produced their sum
C10_Witness ==
    \E s \in Stages :
        /\ Len(ctx[s].results) >= 1
        /\ ops[s][1].opcode = "e" /\ ops[s][1].isMulti
        /\ Len(OpExecs(s, 0)) = MaxRows
        /\ OpExecs(s, 0)[1].res = OkPacket(1)
        /\ OpExecs(s, 0)[MaxRows].res = OkPacket(2)
        /\ ctx[s].results[1].n > 2

\* C11: a call of execute whose statement uses ? with a container that is
\* not a flat array or an array of arrays, or uses :name with a container
\* that is not a flat object or an array of objects, throws: no operation
\* of the stage comes from such a call, and the step in which a call
\* throws changes neither the stage, nor a pool, nor a connection.
C11_ShapeMismatchThrows ==
    /\ [](\A s \in Stages : \A req \in menu[s].reqs :
            ShapeMismatch(req)
                => \A k \in 1..Len(ops[s]) : ~ComesFrom(ops[s][k], req))
    /\ [][\A s \in Stages : thrown'[s] # thrown[s] => ThrewOnly(s)]_vars

\* execute with a ? statement and an array of objects threw the error of a
\* container that does not fit ?, and the stage holds nothing
C11_Witness ==
    \E s \in Stages : \E j \in AppendThrows(s) :
        /\ thrown[s][j].error = "shape?"
        /\ UsesStyle(thrown[s][j].req.sql, "?")
        /\ ContainerClass(thrown[s][j].req.params) = "array-of-objects"
        /\ ops[s] = <<>> /\ pools = <<>> /\ calls[s] = <<>>

\* C12: no operation of a stage comes from a call whose statement has both
\* a :name and a ?, whatever its container; and a call whose statement has
\* $n with one of the two styles, and a container that fits that style and
\* holds no null leaf, does not throw.
C12_MixedStylesThrow ==
    \A s \in Stages :
        /\ \A req \in menu[s].reqs :
              MixedStyles(req.sql)
                  => \A k \in 1..Len(ops[s]) : ~ComesFrom(ops[s][k], req)
        /\ \A j \in AppendThrows(s) :
              LET req == thrown[s][j].req IN
              ~( /\ UsesStyle(req.sql, "$")
                 /\ ~MixedStyles(req.sql)
                 /\ ~ShapeMismatch(req)
                 /\ ~NullLeaf(req.params) )

\* execute with a statement of both styles and a flat array has thrown the
\* error of mixed styles, and the stage holds nothing
C12_Witness ==
    \E s \in Stages : \E j \in AppendThrows(s) :
        /\ MixedStyles(thrown[s][j].req.sql)
        /\ thrown[s][j].req.params = Arr(<<Num(1)>>)
        /\ thrown[s][j].error = "mixed"
        /\ ops[s] = <<>>

\* C13 as stated: no operation of a stage comes from a call whose container
\* holds a null or an undefined leaf (an element of a flat array, a property
\* of a flat object, an element of an inner array, a property of an element
\* of an array of objects): every such call throws.
C13_NullLeafThrows ==
    \A s \in Stages : \A req \in menu[s].reqs :
        NullLeaf(req.params)
            => \A k \in 1..Len(ops[s]) : ~ComesFrom(ops[s][k], req)

\* C14: the result of a scalar operation (queryInt, queryFloat,
\* queryString) is its default when there is no result set, no row, or the
\* first column of the first row is null or undefined; for queryInt and
\* queryFloat also when that value is neither a number nor a text that
\* begins with one; and it is never taken from another column or row.
C14_ScalarDefault ==
    \A s \in Stages : \A k \in Completed(s) :
        LET op == ops[s][k + 1]
            v == FirstValue(OpExecs(s, k)[1].res)
            result == ctx[s].results[k + 1]
        IN  (op.opcode \in {"qi", "qf", "qs"} /\ ~op.isMulti)
                => /\ v.k \in {"none", "null", "undef"} => result = op.dflt
                   /\ ( /\ op.opcode \in {"qi", "qf"}
                        /\ v.k \notin {"num", "frac"}
                        /\ ~(v.k = "str" /\ v.s \in NumericTexts) )
                          => result = op.dflt
                   /\ result \notin {Num(9), Str("9")}

\* a queryInt answered with one row whose first column is the text abc
\* produced its default, and a second query was answered with a null first
\* column beside a 9 and produced its default
C14_Witness ==
    \E s \in Stages :
        /\ Len(ctx[s].results) = 2
        /\ ops[s][1].opcode = "qi"
        /\ OpExecs(s, 0)[1].res = OneCell(Str("abc"))
        /\ ctx[s].results[1] = Num(-1)
        /\ FirstValue(OpExecs(s, 1)[1].res) = Null
        /\ Len(OpExecs(s, 1)[1].res.a[1].cols) = 2
        /\ ctx[s].results[2] = ops[s][2].dflt

\* C15: a finalization has at most one driver call outstanding, the last
\* it made; the statements of its operations are sent in the order of the
\* stage and, inside an operation, of its rows, each after the one before
\* it has called back, an operation's first only after every row of the
\* operation before it was executed.
C15_OneStatementAtATime ==
    \A s \in Stages :
        /\ \A j \in 1..(Len(calls[s]) - 1) : calls[s][j].res # Pending
        /\ \A y \in OpCalls(s) :
              LET before == {x \in OpCalls(s) : x < y}
                  cur == calls[s][y]
              IN  IF before = {}
                  THEN cur.k = 0 /\ cur.i = 0
                  ELSE LET prev == calls[s][CHOOSE x \in before : \A z \in before : z <= x]
                       IN  /\ Succeeded(prev)
                           /\ \/ cur.k = prev.k /\ cur.i = prev.i + 1
                              \/ /\ cur.k = prev.k + 1 /\ cur.i = 0
                                 /\ prev.i + 1 = Len(ParamRows(ops[s][prev.k + 1]))

\* the second operation's statement is outstanding after the MaxRows
\* statements of a multi-row first operation completed one after the other
C15_Witness ==
    \E s \in Stages :
        /\ ctx[s].pc = "exec"
        /\ LastCall(s).k = 1 /\ LastCall(s).res = Pending
        /\ Len(OpExecs(s, 0)) = MaxRows /\ MaxRows > 1

\* C16: no error is thrown to the caller of finale; and when a driver call
\* of a finalization failed (pool creation, connection acquisition, SET
\* autocommit, begin, a statement of an operation, commit), it is the only
\* one that did, and its error is the error the callback is given.
C16_DriverErrorsDelivered ==
    \A s \in Stages :
        /\ \A j \in 1..Len(thrown[s]) : thrown[s][j].by # "finale"
        /\ ctx[s].pc # "thrown"
        /\ Cardinality(ForwardFailures(s)) <= 1
        /\ \A j \in ForwardFailures(s) :
              Finished(s)
                  => /\ ctx[s].err = ErrOfCall(calls[s][j])
                     /\ \A d \in Delivered(s) : cbs[s][d].err = ErrOfCall(calls[s][j])
                     /\ ctx[s].pc = "done" => Cardinality(Delivered(s)) = 1

\* createPool threw inside finale, nothing was thrown to the caller, and
\* the callback was given the error
C16_Witness ==
    \E s \in Stages :
        /\ ctx[s].pc = "done"
        /\ \E j \in ForwardFailures(s) : calls[s][j].call = "createPool"
        /\ \E d \in Delivered(s) : cbs[s][d].err = "pool"
        /\ thrown[s] = <<>>

\* C17: the first call a finalization makes on its connection is the
\* statement SET autocommit=0 when the flag given to finale is false and
\* SET autocommit=1 when it is true, and no other statement of the kind is
\* sent; with the flag false, begin is the call that follows the SET once it
\* succeeded; with the flag true, begin, commit and rollback are never called.
C17_CommitModeSet ==
    \A s \in Stages : \A j \in ConnCalls(s) :
        LET rec == calls[s][j]
            first == \A x \in ConnCalls(s) : j <= x
        IN  /\ first <=> (rec.call = "exec" /\ rec.kind \in {"set0", "set1"})
            /\ first => rec.kind = (IF ctx[s].autocommit THEN "set1" ELSE "set0")
            /\ (first /\ ~ctx[s].autocommit /\ Succeeded(rec) /\ j < Len(calls[s]))
                  => calls[s][j + 1].call = "begin"
            /\ rec.call = "begin"
                  => /\ ~ctx[s].autocommit
                     /\ calls[s][j - 1].kind = "set0" /\ Succeeded(calls[s][j - 1])
            /\ ctx[s].autocommit => rec.call \notin {"begin", "commit", "rollback"}

\* a finalization called without the flag sent SET autocommit=0 first, then
\* began its transaction, and ran a statement
C17_Witness ==
    \E s \in Stages :
        /\ ~ctx[s].autocommit /\ Finished(s) /\ Len(ctx[s].results) = 1
        /\ \E j \in ConnCalls(s) :
              /\ calls[s][j].kind = "set0"
              /\ calls[s][j + 1].call = "begin"
              /\ calls[s][j + 2].call = "exec" /\ calls[s][j + 2].k = 0

\* C18: a call of curtains has called back at most once, and only when
\* every pool that was cached at the call has finished closing (at once
\* when none was cached); end was called on every pool that is closing or
\* has closed, and every pool cached at the call is waiting for its turn,
\* closing or closed.
C18_CurtainsClosesAll ==
    \A j \in 1..Len(curtains) :
        LET cu == curtains[j] IN
        /\ cu.callbacks <= 1
        /\ cu.callbacks = 1 <=> (cu.closed = Range(cu.cached) /\ cu.ending = "")
        /\ \A key \in cu.closed \cup ({cu.ending} \ {""}) : poolEnds[key] >= 1
        /\ Range(cu.cached) =
              cu.closed \cup ({cu.ending} \ {""}) \cup Range(cu.poolsToClose)

\* curtains was called with two pools cached and called back after both
\* had finished closing
C18_Witness ==
    \E j \in 1..Len(curtains) :
        /\ Len(curtains[j].cached) = 2
        /\ curtains[j].callbacks = 1
        /\ curtains[j].closed = {"A", "B"}
        /\ poolEnds["A"] >= 1 /\ poolEnds["B"] >= 1

\* C19 as stated: a finalization executes, and delivers results for, only
\* the operations its stage held when finale was called: an operation
\* appended afterwards is not executed and adds no result.
C19_SealedAtFinale ==
    \A s \in Stages :
        finaleComplete[s]
            => /\ \A j \in OpCalls(s) : calls[s][j].k < ctx[s].nops
               /\ Len(ctx[s].results) <= ctx[s].nops

C21_StepOrder ==
    \A s \in Stages :
        /\ \A i, j \in 1..Len(calls[s]) :
              i < j => /\ StepRank(calls[s][i]) <= StepRank(calls[s][j])
                       /\ StepRank(calls[s][i]) = StepRank(calls[s][j])
                             => StepRank(calls[s][i]) = 4
                       /\ Failed(calls[s][i]) /\ i \in ForwardFailures(s)
                             => calls[s][j].call \in {"rollback", "release"}
        /\ \A j \in 1..Len(calls[s]) :
              /\ calls[s][j].call \in {"begin", "commit"} => ctx[s].bTransact
              /\ calls[s][j].call = "commit" => ForwardFailures(s) \subseteq {j}
        /\ Delivered(s) # {}
              => /\ \A cn \in ConnIds : conns[cn].owner # s
                 /\ ctx[s].conn # NoConn => LastCall(s).call = "release"

\* a transactional finalization whose second operation failed was answered:
\* it went through every step but commit, and rolled back and released
C21_Witness ==
    \E s \in Stages :
        /\ Delivered(s) # {}
        /\ ctx[s].bTransact
        /\ \E j \in OpCalls(s) : Failed(calls[s][j]) /\ calls[s][j].k = 1
        /\ CallsOf(s, "begin") # {}
        /\ CallsOf(s, "commit") = {}
        /\ CallsOf(s, "rollback") # {}
        /\ CallsOf(s, "release") # {}

\* C22: a finalization issues rollback only after its begin succeeded; when
\* pool creation, connection acquisition, SET autocommit or begin failed, it
\* executes no statement of an operation and issues no rollback.
C22_RollbackOnlyAfterBegin ==
    \A s \in Stages :
        /\ CallsOf(s, "rollback") # {}
              => \E j \in CallsOf(s, "begin") : Succeeded(calls[s][j])
        /\ EarlyFailure(s)
              => OpCalls(s) = {} /\ CallsOf(s, "rollback") = {}

\* a transactional finalization of a stage that holds operations was
\* answered after its begin failed
C22_Witness ==
    \E s \in Stages :
        /\ Delivered(s) # {}
        /\ Len(ops[s]) > 0
        /\ \E j \in CallsOf(s, "begin") : Failed(calls[s][j])
        /\ CallsOf(s, "rollback") = {}
        /\ CallsOf(s, "release") # {}

\* C23: when every driver call completes, the callback given to a call of
\* finale is invoked at some time after the call, and never more than once.
C23_CallbackExactlyOnce ==
    /\ [](\A s \in Stages : \A n \in 1..MaxFinaleCalls :
            Cardinality(AnswersTo(s, n)) <= 1)
    /\ \A s \in Stages : \A n \in 1..MaxFinaleCalls :
            (finaleCalls[s] >= n) ~> (AnswersTo(s, n) # {})

\* a finalization stopped by the exception formatResult threw in the
\* callback of conn.execute, its callback never invoked and its connection
\* still checked out
C23_Witness ==
    \E s \in Stages :
        /\ ctx[s].pc = "crashed"
        /\ AnswersTo(s, ctx[s].call) = {}
        /\ conns[ctx[s].conn].owner = s

\* C24: in every statement sent for an operation, the argument of the i-th
\* "?" placeholder (0-based, counting the "?" placeholders only) is element
\* i of the parameter row the statement is sent for, whatever other
\* placeholders come before it.
C24_PositionalIndex ==
    \A s \in Stages : \A j \in OpCalls(s) :
        LET r == calls[s][j]
            op == ops[s][r.k + 1]
            row == ParamRows(op)[r.i + 1]
        IN  \A m \in 1..Len(op.paramTypes) :
                op.paramTypes[m] = "?"
                    => r.args[m] = ElementAt(row, QuestionMarksBefore(op.paramTypes, m))

\* C25: in every statement sent for an operation, the argument of every
\* ":name" and of every "?" placeholder is a value that is present and not
\* null.
C25_ExplicitArgsPresent ==
    \A s \in Stages : \A j \in OpCalls(s) :
        LET r == calls[s][j]
            op == ops[s][r.k + 1]
        IN  \A m \in 1..Len(op.paramTypes) :
                op.paramTypes[m] \in {":", "?"} => ~IsNullish(r.args[m])

\* C26: in every statement sent for operation k, every row of a multi-row
\* operation included, the argument of a $N placeholder with N >= k is
\* undefined.
C26_ForwardRefUnbound ==
    \A s \in Stages : \A j \in OpCalls(s) :
        LET r == calls[s][j]
            op == ops[s][r.k + 1]
        IN  \A m \in 1..Len(op.paramTypes) :
                (op.paramTypes[m] = "$" /\ op.paramRefs[m].idx >= r.k)
                    => r.args[m] = Undef

\* the second row of a multi-row operation that is the stage's second and
\* refers to $1 was sent with nothing for it, after its first row had
\* changed rows and the first operation had produced a result
C26_Witness ==
    \E s \in Stages : \E j, h \in OpCalls(s) :
        /\ calls[s][j].k = 1 /\ calls[s][j].i = 1
        /\ calls[s][h].k = 1 /\ calls[s][h].i = 0
        /\ RowsAffected(calls[s][h].res) > 0
        /\ Len(ctx[s].results) = 1
        /\ ops[s][2].paramTypes = <<"?", "$">>
        /\ ops[s][2].paramRefs[2].idx = 1
        /\ calls[s][j].args = <<Num(2), Undef>>

\* C27: an operation that produced its result sent its statement once per
\* element of the container it was given when that is an array of arrays or
\* an array of objects, and once otherwise: with no container, a scalar, a
\* flat array, a flat object or an empty array.
C27_ExecutionsPerContainer ==
    \A s \in Stages : \A k \in Completed(s) : \A req \in menu[s].reqs :
        ComesFrom(ops[s][k + 1], req)
            => Len(OpExecs(s, k)) =
                  IF ContainerClass(req.params) \in {"array-of-arrays", "array-of-objects"}
                  THEN Len(req.params.a)
                  ELSE 1

\* an operation given an array of two objects produced its result after two
\* executions, one per object
C27_Witness ==
    \E s \in Stages :
        /\ 0 \in Completed(s)
        /\ ContainerClass(ops[s][1].paramVals) = "array-of-objects"
        /\ Len(ops[s][1].paramVals.a) = 2
        /\ Len(OpExecs(s, 0)) = 2
        /\ OpExecs(s, 0)[1].args # OpExecs(s, 0)[2].args

\* C28: the result of a query or scalar-query operation given an array of
\* R rows (an array of arrays or of objects) is an array of R entries, the
\* j-th the formatted answer to the execution with row j; the result of
\* one given anything else is the formatted answer to its one execution,
\* not wrapped in an array.
C28_QueryResultPerRow ==
    \A s \in Stages : \A k \in Completed(s) : \A req \in menu[s].reqs :
        LET op == ops[s][k + 1]
            ex == OpExecs(s, k)
            result == ctx[s].results[k + 1]
        IN  (ComesFrom(op, req) /\ op.opcode # "e")
                => IF ContainerClass(req.params) \in {"array-of-arrays", "array-of-objects"}
                   THEN /\ result.k = "arr"
                        /\ Len(result.a) = Len(req.params.a)
                        /\ Len(ex) = Len(req.params.a)
                        /\ \A j \in 1..Len(ex) :
                              /\ ex[j].i = j - 1
                              /\ ex[j].args =
                                    makeArgs(op.paramRefs, op.paramTypes,
                                             req.params.a[j], <<>>)
                              /\ result.a[j] = formatResult(op, ex[j].res)
                   ELSE /\ Len(ex) = 1
                        /\ result = formatResult(op, ex[1].res)

\* a query given an array of one row produced an array of one row set, and
\* a queryInt given MaxRows rows produced an array of MaxRows numbers
C28_Witness ==
    \E s \in Stages :
        /\ Len(ctx[s].results) = 2
        /\ ops[s][1].opcode = "q" /\ ops[s][1].isMulti
        /\ Len(ops[s][1].paramVals.a) = 1
        /\ ctx[s].results[1] = Arr(<<OpExecs(s, 0)[1].res>>)
        /\ ops[s][2].opcode = "qi" /\ ops[s][2].isMulti
        /\ ctx[s].results[2] = Arr([j \in 1..MaxRows |-> Num(7)])

\* C29: the result of a queryInt operation is an integral number or its
\* default, that of a queryFloat operation a number that is not NaN or its
\* default, that of a queryString operation a text or its default.
C29_ScalarResultTypes ==
    \A s \in Stages : \A k \in Completed(s) :
        LET op == ops[s][k + 1]
            result == ctx[s].results[k + 1]
        IN  /\ op.opcode = "qi" => (result.k = "num" \/ result = op.dflt)
            /\ op.opcode = "qf" => (result.k \in {"num", "frac"} \/ result = op.dflt)
            /\ op.opcode = "qs" => (result.k = "str" \/ result = op.dflt)

\* a queryInt answered with the number 42.5 produced its default, and a
\* queryString answered with the number 7 produced the text 7
C29_Witness ==
    \E s \in Stages :
        /\ Len(ctx[s].results) = 2
        /\ ops[s][1].opcode = "qi"
        /\ OpExecs(s, 0)[1].res = OneCell(Frac(425))
        /\ ctx[s].results[1] = ops[s][1].dflt
        /\ ops[s][2].opcode = "qs"
        /\ OpExecs(s, 1)[1].res = OneCell(Num(7))
        /\ ctx[s].results[2] = Str("7")

\* C30 as stated: over any sequence of calls, repeated calls of curtains
\* included, end is called at most once on each cached pool.
C30_PoolsClosedOnce ==
    \A key \in Keys : poolEnds[key] <= 1

C32_OwnConnectionOwnResults ==
    \A s \in Stages :
        /\ \A j \in ConnCalls(s) :
              /\ calls[s][j].conn = ctx[s].conn
              /\ calls[s][j].res = Pending => conns[calls[s][j].conn].owner = s
        /\ \A t \in Stages \ {s} :
              (ctx[s].conn # NoConn /\ conns[ctx[s].conn].owner = s)
                  => ~(ctx[t].conn = ctx[s].conn /\ InFlight(t)
                       /\ CallsOf(t, "release") = {})
        /\ \A j \in OpCalls(s) :
              LET r == calls[s][j]
                  op == ops[s][r.k + 1]
              IN  \A m \in 1..Len(op.paramTypes) :
                      (op.paramTypes[m] = "$" /\ op.paramRefs[m].idx < r.k)
                          => r.args[m] = Produced(s, op.paramRefs[m].idx)
        /\ \A k \in Completed(s) : ctx[s].results[k + 1] = Produced(s, k)
        /\ \A j \in Delivered(s) :
              \/ cbs[s][j].rv = Arr(ctx[s].results)
              \/ cbs[s][j].rv = Undef /\ ctx[s].results = <<>>
              \/ cbs[s][j].rv = Produced(s, 0) /\ Len(ctx[s].results) >= 1

\* two finalizations are in flight on two connections of one pool, each
\* waiting for its second statement, sent with the count its own first
\* operation produced: 7 for one, 9 for the other
C32_Witness ==
    /\ ctx["s1"].pool = ctx["s2"].pool
    /\ ctx["s1"].conn # ctx["s2"].conn
    /\ \A s \in Stages :
          /\ ctx[s].pc = "exec"
          /\ conns[ctx[s].conn].owner = s
          /\ LastCall(s).k = 1
    /\ LastCall("s1").args = <<Num(7)>>
    /\ LastCall("s2").args = <<Num(9)>>

\* C33: the registry holds at most one pool per key, and createPool has
\* returned at most one pool per key; a finalization uses the pool cached
\* for the key of its configuration, so finalizations with the same
\* configuration use the same pool; and no step, of curtains included,
\* removes or replaces an entry of the registry.
C33_OnePoolPerConfiguration ==
    /\ [](/\ \A i, j \in 1..Len(pools) : pools[i] = pools[j] => i = j
          /\ \A key \in Keys :
                /\ Cardinality(PoolsCreated(key)) <= 1
                /\ PoolsCreated(key) # {} <=> IsCached(key)
          /\ \A s \in Stages :
                ctx[s].pool # "" => ctx[s].pool = PoolKey(cfg[s]) /\ IsCached(ctx[s].pool))
    /\ [][/\ Len(pools') >= Len(pools)
          /\ \A i \in 1..Len(pools) : pools'[i] = pools[i]]_vars

\* two finalizations with the same configuration use the one pool the first
\* of them created, which is still cached after curtains has closed it
C33_Witness ==
    /\ ctx["s1"].pool = "A" /\ ctx["s2"].pool = "A"
    /\ pools = <<"A">>
    /\ Cardinality(PoolsCreated("A")) = 1
    /\ Len(curtains) = 1 /\ curtains[1].callbacks = 1
    /\ poolEnds["A"] = 1

\* C34: an operation is what doAction built from the container as it was
\* when the caller passed it, whatever the caller did to the container
\* afterwards; every statement the operation sends is sent for a row of the
\* container as passed, with the values that row had then.
C34_ParamsFixedAtConstruction ==
    \A s \in Stages : \A k \in 1..Len(held[s]) :
        k <= Len(ops[s]) =>
            LET op == ops[s][k]
                built == doAction(op.opcode, op.rawSql, held[s][k].given, op.dflt)
            IN  /\ op = built
                /\ \A j \in OpCalls(s) :
                      calls[s][j].k = k - 1 =>
                          /\ calls[s][j].i < Len(ParamRows(built))
                          /\ LET row == ParamRows(built)[calls[s][j].i + 1]
                                 args == makeArgs(built.paramRefs, built.paramTypes,
                                                  row, <<>>)
                             IN  \A m \in 1..Len(args) :
                                     built.paramTypes[m] # "$"
                                         => calls[s][j].args[m] = args[m]

\* the caller wrote over the rows of a multi-row insert while the
\* finalization was running, before the second row was sent, and the second
\* row was sent with the value it had when it was passed
C34_Witness ==
    \E s \in Stages :
        /\ Len(held[s]) >= 1
        /\ held[s][1].given = ReqInsertMany.params
        /\ held[s][1].now = Overwritten(ReqInsertMany.params)
        /\ held[s][1].at >= 1
        /\ \E j \in OpCalls(s) :
              /\ j > held[s][1].at
              /\ calls[s][j].k = 0 /\ calls[s][j].i = MaxRows - 1
              /\ calls[s][j].args = <<Num(MaxRows)>>
              /\ Succeeded(calls[s][j])

\* C35: when a finalization failed in operation k, or before its first
\* operation (k = 0), the callback is given the error and, for a stage that
\* held one operation when finale was called, undefined; for any other
\* stage, the array of the results of operations 0 .. k-1, in that order.
C35_PartialResultsOnFailure ==
    \A s \in Stages : \A d \in Delivered(s) :
        (OpFailed(s) \/ EarlyFailure(s))
            => /\ cbs[s][d].err # ""
               /\ cbs[s][d].rv =
                     IF ctx[s].nops = 1 THEN Undef
                     ELSE Arr([i \in 1..FailedAt(s) |-> Produced(s, i - 1)])

\* a stage of two operations whose second operation failed: the callback
\* was given the error and the array of the first operation's result
C35_Witness ==
    \E s \in Stages : \E d \in Delivered(s) :
        /\ ctx[s].nops = 2
        /\ OpFailed(s) /\ FailedAt(s) = 1
        /\ cbs[s][d].err = "op"
        /\ cbs[s][d].rv = Arr(<<Produced(s, 0)>>)

\* C36: a finalization issues rollback at most once; in a transactional
\* finalization whose begin succeeded the connection is released only right
\* after a rollback, issued on that connection, has completed, and once
\* the finalization is over one rollback and one release have been issued;
\* after a commit that succeeded the next calls are that rollback and the
\* release, and the callback is given no error.
C36_RollbackBeforeRelease ==
    \A s \in Stages :
        /\ Cardinality(CallsOf(s, "rollback")) <= 1
        /\ (ctx[s].bTransact /\ \E j \in CallsOf(s, "begin") : Succeeded(calls[s][j]))
              => /\ \A r \in CallsOf(s, "release") :
                       /\ r > 1
                       /\ calls[s][r - 1].call = "rollback"
                       /\ calls[s][r - 1].res # Pending
                       /\ calls[s][r - 1].conn = calls[s][r].conn
                       /\ calls[s][r].conn = ctx[s].conn
                 /\ Finished(s)
                       => /\ Cardinality(CallsOf(s, "rollback")) = 1
                          /\ Cardinality(CallsOf(s, "release")) = 1
                 /\ \A c \in CallsOf(s, "commit") :
                       Succeeded(calls[s][c])
                           => /\ Len(calls[s]) > c => calls[s][c + 1].call = "rollback"
                              /\ Len(calls[s]) > c + 1 => calls[s][c + 2].call = "release"
                              /\ Len(calls[s]) <= c + 2
                              /\ Finished(s) => Len(calls[s]) = c + 2 /\ ctx[s].err = ""
                              /\ \A d \in Delivered(s) : cbs[s][d].err = ""

\* a transactional finalization of an operation committed, then rolled
\* back, then released its connection, and its callback was given no error
C36_Witness ==
    \E s \in Stages : \E d \in Delivered(s) :
        /\ ctx[s].bTransact /\ Len(ctx[s].results) >= 1
        /\ cbs[s][d].err = ""
        /\ Len(calls[s]) >= 3
        /\ LET n == Len(calls[s]) IN
              /\ calls[s][n - 2].call = "commit" /\ Succeeded(calls[s][n - 2])
              /\ calls[s][n - 1].call = "rollback" /\ Succeeded(calls[s][n - 1])
              /\ calls[s][n].call = "release"

\* C37: every statement of an operation is sent on a connection on which
\* the same finalization has before executed, with success, the SET
\* autocommit of its own mode (0 when transactional, 1 otherwise), and
\* while the statement is outstanding the session's autocommit is that
\* mode, whatever mode an earlier finalization left on the connection.
C37_OwnCommitModeSet ==
    \A s \in Stages : \A j \in OpCalls(s) :
        /\ \E i \in 1..(j - 1) :
              /\ calls[s][i].call = "exec" /\ calls[s][i].k < 0
              /\ calls[s][i].kind = IF ctx[s].bTransact THEN "set0" ELSE "set1"
              /\ calls[s][i].conn = calls[s][j].conn
              /\ Succeeded(calls[s][i])
        /\ calls[s][j].res = Pending
              => conns[calls[s][j].conn].ac = IF ctx[s].bTransact THEN 0 ELSE 1

\* a transactional finalization has a statement of an operation outstanding
\* on a connection that an earlier finalization, which ran with autocommit
\* on, used and released
C37_Witness ==
    \E s, e \in Stages :
        /\ s # e
        /\ ctx[s].bTransact /\ ~ctx[e].bTransact
        /\ ctx[s].pc = "exec" /\ LastCall(s).k >= 0
        /\ Delivered(e) # {}
        /\ \E i \in CallsOf(e, "exec") :
              /\ calls[e][i].kind = "set1" /\ Succeeded(calls[e][i])
              /\ calls[e][i].conn = ctx[s].conn
        /\ \E r \in CallsOf(e, "release") : calls[e][r].conn = ctx[s].conn
        /\ conns[ctx[s].conn].ac = 0

\* C38: a finalization of a stage that held no operation when finale was
\* called, all of whose driver calls succeeded, acquired a connection,
\* executed SET autocommit of its mode, began and committed once when
\* transactional and not at all otherwise, executed no statement of an
\* operation, released the connection, and gave its callback no error and
\* an empty array.
C38_EmptyStageFinalization ==
    \A s \in Stages : \A d \in Delivered(s) :
        (ctx[s].nops = 0 /\ ForwardFailures(s) = {})
            => /\ Cardinality(CallsOf(s, "getConn")) = 1
               /\ \E i \in CallsOf(s, "exec") :
                     calls[s][i].kind = IF ctx[s].bTransact THEN "set0" ELSE "set1"
               /\ Cardinality(CallsOf(s, "begin")) = IF ctx[s].bTransact THEN 1 ELSE 0
               /\ Cardinality(CallsOf(s, "commit")) = IF ctx[s].bTransact THEN 1 ELSE 0
               /\ Cardinality(CallsOf(s, "release")) = 1
               /\ OpCalls(s) = {}
               /\ cbs[s][d].err = ""
               /\ cbs[s][d].rv = Arr(<<>>)

\* a transactional finalization of a stage that never held an operation:
\* connection, SET autocommit=0, begin, commit, rollback, release, and the
\* callback given no error and an empty array
C38_Witness ==
    \E s \in Stages : \E d \in Delivered(s) :
        /\ ctx[s].nops = 0 /\ Len(ops[s]) = 0
        /\ ctx[s].bTransact
        /\ [j \in 1..Len(calls[s]) |-> calls[s][j].call]
              = <<"createPool", "getConn", "exec", "begin", "commit", "rollback", "release">>
        /\ calls[s][3].kind = "set0"
        /\ cbs[s][d].err = "" /\ cbs[s][d].rv = Arr(<<>>)

====
